---------------------------- MODULE Spec2Model ----------------------------
(***************************************************************************)
(* A model of the goradd/html5tag package: the tag writer, the Style map,  *)
(* the Attributes store and the TagBuilder.                                *)
(*                                                                         *)
(* Go strings are modelled as sequences of one-character strings, so that  *)
(* slicing, searching, splitting and escaping are computed, not assumed.   *)
(* Go maps are modelled as functions whose DOMAIN is the key set; a nil    *)
(* map and an empty map are the same empty function (the code only reads   *)
(* len() and keys of a nil map).                                           *)
(***************************************************************************)
EXTENDS Integers, Sequences, FiniteSets, TLC

VARIABLES
    pc,        \* position of the current specification's driver
    call,      \* arguments of the call under examination
    ret,       \* what the call returned / wrote
    style,     \* a Style value (map property -> value)
    attrs,     \* an Attributes value (map name -> value)
    builder    \* a TagBuilder value

vars == <<pc, call, ret, style, attrs, builder>>

(***************************************************************************)
(* Characters and strings                                                  *)
(***************************************************************************)

\* The printable ASCII characters the model uses, in byte order.
Ascii ==
    << "\n", " ", "!", "\"", "#", "$", "%", "&", "'", "(", ")", "*", "+", ",",
       "-", ".", "/", "0", "1", "2", "3", "4", "5", "6", "7", "8", "9", ":",
       ";", "<", "=", ">", "?", "@",
       "A", "B", "C", "D", "E", "F", "G", "H", "I", "J", "K", "L", "M", "N",
       "O", "P", "Q", "R", "S", "T", "U", "V", "W", "X", "Y", "Z",
       "[", "]", "^", "_",
       "a", "b", "c", "d", "e", "f", "g", "h", "i", "j", "k", "l", "m", "n",
       "o", "p", "q", "r", "s", "t", "u", "v", "w", "x", "y", "z",
       "{", "|", "}", "~" >>

Ord == [c \in {Ascii[i] : i \in 1..Len(Ascii)} |->
            CHOOSE i \in 1..Len(Ascii) : Ascii[i] = c]

Digit == {"0", "1", "2", "3", "4", "5", "6", "7", "8", "9"}
Lower == {"a", "b", "c", "d", "e", "f", "g", "h", "i", "j", "k", "l", "m",
          "n", "o", "p", "q", "r", "s", "t", "u", "v", "w", "x", "y", "z"}
Upper == {"A", "B", "C", "D", "E", "F", "G", "H", "I", "J", "K", "L", "M",
          "N", "O", "P", "Q", "R", "S", "T", "U", "V", "W", "X", "Y", "Z"}
\* \w of Go's regexp
WordChar == Digit \cup Lower \cup Upper \cup {"_"}
\* unicode.IsSpace restricted to the model's characters
Space == {" ", "\n"}

Min(a, b) == IF a < b THEN a ELSE b

\* F applied to the value of v, v being evaluated once (a local variable)
With(v, F(_)) == CHOOSE r \in {F(x) : x \in {v}} : TRUE

\* s[lo:hi] of Go (0-based, hi exclusive)
Slice(s, lo, hi) == SubSeq(s, lo + 1, hi)

\* s < t, bytewise
StrLess(s, t) ==
    \E i \in 1..(Len(t)) :
        /\ \A j \in 1..(i - 1) : j <= Len(s) /\ s[j] = t[j]
        /\ (i > Len(s) \/ (s[i] # t[i] /\ Ord[s[i]] < Ord[t[i]]))

HasPrefix(s, prefix) ==
    Len(s) >= Len(prefix) /\ SubSeq(s, 1, Len(prefix)) = prefix

\* strings.Index: the 0-based offset of the first occurrence, or -1
Index(s, sub) ==
    With({i \in 0..(Len(s) - Len(sub)) : Slice(s, i, i + Len(sub)) = sub},
         LAMBDA hits : IF hits = {} THEN 0 - 1
                       ELSE CHOOSE i \in hits : \A j \in hits : i <= j)

Contains(s, sub) == Index(s, sub) >= 0

\* strings.Split(s, sep) for a one-character separator
RECURSIVE Split(_, _)
Split(s, sep) ==
    With(Index(s, <<sep>>), LAMBDA i :
        IF i < 0 THEN <<s>>
        ELSE With(Slice(s, i + 1, Len(s)), LAMBDA rest :
                <<Slice(s, 0, i)>> \o Split(rest, sep)))

\* strings.Join
RECURSIVE Join(_, _)
Join(a, sep) ==
    IF a = <<>> THEN <<>>
    ELSE IF Len(a) = 1 THEN a[1]
    ELSE With(Tail(a), LAMBDA rest : a[1] \o sep \o Join(rest, sep))

\* strings.TrimSpace
TrimSpace(s) ==
    With({i \in 1..Len(s) : s[i] \notin Space}, LAMBDA keep :
        IF keep = {} THEN <<>>
        ELSE SubSeq(s, CHOOSE i \in keep : \A j \in keep : i <= j,
                       CHOOSE i \in keep : \A j \in keep : i >= j))

\* strings.Fields: the maximal runs of non-space characters, in order
Fields(s) ==
    With({i \in 1..Len(s) : s[i] \notin Space /\ (i = 1 \/ s[i - 1] \in Space)},
         LAMBDA starts :
            [k \in 1..Cardinality(starts) |->
                With(CHOOSE i \in starts : Cardinality({j \in starts : j < i}) = k - 1,
                     LAMBDA b :
                        SubSeq(s, b, CHOOSE e \in b..Len(s) :
                                        /\ \A j \in b..e : s[j] \notin Space
                                        /\ (e = Len(s) \/ s[e + 1] \in Space)))])

\* the concatenation of the strings of a sequence of strings
RECURSIVE Concat(_)
Concat(a) ==
    IF a = <<>> THEN <<>>
    ELSE With(Tail(a), LAMBDA rest : a[1] \o Concat(rest))

\* html.EscapeString
EscapeString(s) ==
    Concat([i \in 1..Len(s) |->
        CASE s[i] = "&"  -> <<"&", "a", "m", "p", ";">>
          [] s[i] = "'"  -> <<"&", "#", "3", "9", ";">>
          [] s[i] = "<"  -> <<"&", "l", "t", ";">>
          [] s[i] = ">"  -> <<"&", "g", "t", ";">>
          [] s[i] = "\"" -> <<"&", "#", "3", "4", ";">>
          [] OTHER       -> <<s[i]>>])

\* all orderings of a finite set, as sequences
RECURSIVE Orders(_)
Orders(S) ==
    IF S = {} THEN {<<>>}
    ELSE UNION {{<<x>> \o o : o \in Orders(S \ {x})} : x \in S}

\* the concatenations of at most n pieces drawn from P
RECURSIVE Pieces(_, _)
Pieces(P, n) ==
    IF n = 0 THEN {<<>>}
    ELSE With(Pieces(P, n - 1), LAMBDA Q : Q \cup {p \o q : p \in P, q \in Q})

(***************************************************************************)
(* Output sinks                                                            *)
(***************************************************************************)

\* strings.Builder / bytes.Buffer: never fails
NewBuilder == [buf |-> <<>>, limited |-> FALSE, cap |-> 0]
\* errBuffer of the tests: accepts the first cap bytes, then fails
newErrBuf(cap) == [buf |-> <<>>, limited |-> TRUE, cap |-> cap]

\* io.Writer.Write
Write(w, p) ==
    IF w.limited /\ Len(p) + Len(w.buf) > w.cap
    THEN LET l == w.cap - Len(w.buf)
         IN  [w |-> [w EXCEPT !.buf = @ \o Slice(p, 0, l)], n |-> l, err |-> TRUE]
    ELSE [w |-> [w EXCEPT !.buf = @ \o p], n |-> Len(p), err |-> FALSE]

(***************************************************************************)
(* Attributes: encoding (attributes.go)                                    *)
(***************************************************************************)

\* mutant of writeString: the bytes of a failed write are not counted
writeString_dropsPartial(w, s, n) ==
    With(Write(w, s), LAMBDA r :
        [w |-> r.w, n |-> IF r.err THEN n ELSE r.n + n, err |-> r.err])

\* writeString: io.WriteString that accumulates the count of earlier writes
writeString(w, s, n) ==
    With(Write(w, s), LAMBDA r : [w |-> r.w, n |-> r.n + n, err |-> r.err])

\* writeKV: name, or name="escaped value"
writeKV(w, k, v) ==
    IF v = <<>> THEN writeString(w, k, 0)
    ELSE With(EscapeString(v), LAMBDA ev :
         With(writeString(w, k, 0), LAMBDA r1 :
            IF r1.err THEN r1 ELSE
         With(writeString(r1.w, <<"=", "\"">>, r1.n), LAMBDA r2 :
            IF r2.err THEN r2 ELSE
         With(writeString(r2.w, ev, r2.n), LAMBDA r3 :
            IF r3.err THEN r3 ELSE
         writeString(r3.w, <<"\"">>, r3.n)))))

\* the order in which the special attributes are written
attrSpecialSort ==
    [k \in { <<"i", "d">>, <<"c", "l", "a", "s", "s">>, <<"s", "t", "y", "l", "e">>,
             <<"n", "a", "m", "e">>, <<"v", "a", "l", "u", "e">>, <<"s", "r", "c">>,
             <<"a", "l", "t">>, <<"w", "i", "d", "t", "h">>,
             <<"h", "e", "i", "g", "h", "t">> } |->
        CASE k = <<"i", "d">>                     -> 1
          [] k = <<"c", "l", "a", "s", "s">>      -> 2
          [] k = <<"s", "t", "y", "l", "e">>      -> 3
          [] k = <<"n", "a", "m", "e">>           -> 4
          [] k = <<"v", "a", "l", "u", "e">>      -> 5
          [] k = <<"s", "r", "c">>                -> 6
          [] k = <<"a", "l", "t">>                -> 7
          [] k = <<"w", "i", "d", "t", "h">>      -> 8
          [] k = <<"h", "e", "i", "g", "h", "t">> -> 9]

\* mutant of keyLess: the keys compare as strings, the special ones too
keyLess_bytewise(k1, k2) == StrLess(k1, k2)

\* the less function handed to sort.Slice in sortedKeys
keyLess(k1, k2) ==
    IF k1 \in DOMAIN attrSpecialSort
    THEN (IF k2 \in DOMAIN attrSpecialSort
          THEN attrSpecialSort[k1] < attrSpecialSort[k2] ELSE TRUE)
    ELSE IF k2 \in DOMAIN attrSpecialSort THEN FALSE
    ELSE StrLess(k1, k2)

\* sortedKeys: the keys of a in the order sort.Slice leaves them
sortedKeys(a) ==
    With(DOMAIN a, LAMBDA S :
        [i \in 1..Cardinality(S) |->
            CHOOSE k \in S : Cardinality({o \in S : keyLess(o, k)}) = i - 1])

\* the loop of WriteSortedTo and of WriteTo: the pairs of a in the order keys,
\* from the i-th on, one space between two pairs; n counts the bytes written
RECURSIVE writePairs(_, _, _, _, _)
writePairs(a, w, keys, i, n) ==
    IF i > Len(keys) THEN [w |-> w, n |-> n, err |-> FALSE]
    ELSE With(writeKV(w, keys[i], a[keys[i]]), LAMBDA r1 :
            IF r1.err THEN [w |-> r1.w, n |-> n + r1.n, err |-> TRUE]
            ELSE IF i < Len(keys)
            THEN With(Write(r1.w, <<" ">>), LAMBDA r2 :
                    IF r2.err THEN [w |-> r2.w, n |-> n + r1.n + r2.n, err |-> TRUE]
                    ELSE With(n + r1.n + r2.n, LAMBDA n2 :
                            writePairs(a, r2.w, keys, i + 1, n2)))
            ELSE [w |-> r1.w, n |-> n + r1.n, err |-> FALSE])

\* Attributes.WriteSortedTo
WriteSortedTo(a, w) ==
    With(sortedKeys(a), LAMBDA sk : writePairs(a, w, sk, 1, 0))

\* Attributes.WriteTo: order is the order in which range visits the map
WriteTo(a, order, w) == writePairs(a, w, order, 1, 0)

(***************************************************************************)
(* The tag writer (tag.go)                                                 *)
(***************************************************************************)

\* an io.WriterTo: nil, or a strings.Reader over s
NilWriterTo == [kind |-> "nil", s |-> <<>>]
NewReader(s) == [kind |-> "reader", s |-> s]

\* strings.Reader.WriteTo
ReaderWriteTo(r, w) ==
    IF Len(r.s) = 0 THEN [w |-> w, n |-> 0, err |-> FALSE]
    ELSE Write(w, r.s)

\* writerItems: the io.WriterTo that makeWritersTo makes of its items
makeWritersTo(items) == [kind |-> "items", s |-> <<>>, items |-> items]

\* the call has panicked: a method called on a nil io.WriterTo
Panicked(r) == "panic" \in DOMAIN r /\ r.panic

\* writerItems.WriteTo, from the i-th item on, n bytes being written so
\* far; the WriteTo of a nil item is a nil dereference
RECURSIVE writerItems_WriteTo(_, _, _, _)
writerItems_WriteTo(items, i, w, n) ==
    IF i > Len(items) THEN [w |-> w, n |-> n, err |-> FALSE, panic |-> FALSE]
    ELSE IF items[i].kind = "nil" THEN [w |-> w, n |-> n, err |-> FALSE, panic |-> TRUE]
    ELSE With(ReaderWriteTo(items[i], w), LAMBDA r2 :
            IF r2.err THEN [w |-> r2.w, n |-> n + r2.n, err |-> TRUE, panic |-> FALSE]
            ELSE writerItems_WriteTo(items, i + 1, r2.w, n + r2.n))

\* the WriteTo of an io.WriterTo: of a strings.Reader, of writerItems, or
\* of nil
WriterTo_WriteTo(wto, w) ==
    IF wto.kind = "nil" THEN [w |-> w, n |-> 0, err |-> FALSE, panic |-> TRUE]
    ELSE IF wto.kind = "items" THEN writerItems_WriteTo(wto.items, 1, w, 0)
    ELSE With(ReaderWriteTo(wto, w), LAMBDA r :
            [w |-> r.w, n |-> r.n, err |-> r.err, panic |-> FALSE])

\* indent: two spaces in front of every non-empty line
indent(s) ==
    With(Split(s, "\n"), LAMBDA a :
        Join([i \in 1..Len(a) |->
                IF a[i] # <<>> THEN <<" ", " ">> \o a[i] ELSE a[i]], <<"\n">>))

textareaOpen == <<"<", "t", "e", "x", "t", "a", "r", "e", "a">>
textareaClose == <<"<", "/", "t", "e", "x", "t", "a", "r", "e", "a", ">">>

\* the loop of Indent, out being what was produced so far
RECURSIVE IndentLoop(_, _)
IndentLoop(s, out) ==
    With(Index(s, textareaOpen), LAMBDA taOffset :
        IF taOffset = 0 - 1 THEN out \o indent(s)
        ELSE With(Slice(s, taOffset, Len(s)), LAMBDA s2 :
             With(Index(s2, textareaClose), LAMBDA taClose :
                IF taClose = 0 - 1 THEN s2
                ELSE With(out \o indent(Slice(s, 0, taOffset))
                              \o Slice(s2, 0, taClose + Len(textareaClose)),
                          LAMBDA out2 :
                     With(Slice(s2, taClose + Len(textareaClose), Len(s2)),
                          LAMBDA s3 : IndentLoop(s3, out2))))))

\* Indent
Indent(s) == IndentLoop(s, <<>>)

\* mutant of writeInner: the formatted buffer is flushed without Indent
writeInner_noIndent(w, n, innerHtml, noSpace, format) ==
    With(IF format THEN NewBuilder ELSE w, LAMBDA innerW :
    With(IF ~noSpace THEN writeString(innerW, <<"\n">>, 0)
         ELSE [w |-> innerW, n |-> 0, err |-> FALSE], LAMBDA i1 :
        IF i1.err
        THEN [w |-> IF format THEN w ELSE i1.w, n |-> n, err |-> TRUE] ELSE
    With(WriterTo_WriteTo(innerHtml, i1.w), LAMBDA i2 :
        IF i2.panic
        THEN [w |-> IF format THEN w ELSE i2.w, n |-> n, err |-> FALSE, panic |-> TRUE]
        ELSE IF i2.err
        THEN [w |-> IF format THEN w ELSE i2.w,
              n |-> IF ~format THEN n + i1.n + i2.n ELSE n, err |-> TRUE] ELSE
    With(IF ~noSpace THEN writeString(i2.w, <<"\n">>, i1.n + i2.n)
         ELSE [w |-> i2.w, n |-> i1.n + i2.n, err |-> FALSE], LAMBDA i3 :
        IF i3.err
        THEN [w |-> IF format THEN w ELSE i3.w,
              n |-> IF ~format THEN n + i3.n ELSE n, err |-> TRUE]
        ELSE IF format THEN writeString(w, i3.w.buf, n)
        ELSE [w |-> i3.w, n |-> n + i3.n, err |-> FALSE]))))

\* the part of writeTag that writes the inner html; n is the count so far
writeInner(w, n, innerHtml, noSpace, format) ==
    With(IF format THEN NewBuilder ELSE w, LAMBDA innerW :
    With(IF ~noSpace THEN writeString(innerW, <<"\n">>, 0)
         ELSE [w |-> innerW, n |-> 0, err |-> FALSE], LAMBDA i1 :
        IF i1.err
        THEN [w |-> IF format THEN w ELSE i1.w, n |-> n, err |-> TRUE] ELSE
    With(WriterTo_WriteTo(innerHtml, i1.w), LAMBDA i2 :
        IF i2.panic
        THEN [w |-> IF format THEN w ELSE i2.w, n |-> n, err |-> FALSE, panic |-> TRUE]
        ELSE IF i2.err
        THEN [w |-> IF format THEN w ELSE i2.w,
              n |-> IF ~format THEN n + i1.n + i2.n ELSE n, err |-> TRUE] ELSE
    With(IF ~noSpace THEN writeString(i2.w, <<"\n">>, i1.n + i2.n)
         ELSE [w |-> i2.w, n |-> i1.n + i2.n, err |-> FALSE], LAMBDA i3 :
        IF i3.err
        THEN [w |-> IF format THEN w ELSE i3.w,
              n |-> IF ~format THEN n + i3.n ELSE n, err |-> TRUE]
        ELSE IF format
        THEN With(IF ~noSpace THEN Indent(i3.w.buf) ELSE i3.w.buf, LAMBDA s :
                writeString(w, s, n))
        ELSE [w |-> i3.w, n |-> n + i3.n, err |-> FALSE]))))

\* the return of writeTag, read telling whether the inner html was read
tagResult(r, read) ==
    [w |-> r.w, n |-> r.n, err |-> r.err, read |-> read, panic |-> Panicked(r)]

\* the attributes of writeTag: a space and the encoding, when there are any
writeTagAttrs(r2, attr, order, format) ==
    IF Cardinality(DOMAIN attr) # 0
    THEN With(writeString(r2.w, <<" ">>, r2.n), LAMBDA r3 :
            IF r3.err THEN r3
            ELSE With(IF format THEN WriteSortedTo(attr, r3.w)
                      ELSE WriteTo(attr, order, r3.w), LAMBDA ra :
                    [w |-> ra.w, n |-> r3.n + ra.n, err |-> ra.err]))
    ELSE r2

\* mutant of writeTag: isVoid is not looked at
writeTag_voidIgnored(w, tag, attr, order, innerHtml, isVoid, noSpace, format) ==
    With(writeString(w, <<"<">>, 0), LAMBDA r1 :
        IF r1.err THEN tagResult(r1, FALSE) ELSE
    With(writeString(r1.w, tag, r1.n), LAMBDA r2 :
        IF r2.err THEN tagResult(r2, FALSE) ELSE
    With(writeTagAttrs(r2, attr, order, format), LAMBDA r4 :
        IF r4.err THEN tagResult(r4, FALSE) ELSE
    With(writeString(r4.w, <<">">>, r4.n), LAMBDA r5 :
        IF r5.err THEN tagResult(r5, FALSE) ELSE
    With(IF innerHtml.kind # "nil"
         THEN writeInner(r5.w, r5.n, innerHtml, noSpace, format)
         ELSE r5, LAMBDA r6 :
        IF r6.err \/ Panicked(r6) THEN tagResult(r6, innerHtml.kind # "nil") ELSE
    With(writeString(r6.w, <<"<", "/">>, r6.n), LAMBDA r7 :
        IF r7.err THEN tagResult(r7, innerHtml.kind # "nil") ELSE
    With(writeString(r7.w, tag, r7.n), LAMBDA r8 :
        IF r8.err THEN tagResult(r8, innerHtml.kind # "nil")
        ELSE tagResult(writeString(r8.w, <<">">>, r8.n), innerHtml.kind # "nil"))))))))

\* writeTag; order is the order in which the unsorted WriteTo visits attr
writeTag(w, tag, attr, order, innerHtml, isVoid, noSpace, format) ==
    With(writeString(w, <<"<">>, 0), LAMBDA r1 :
        IF r1.err THEN tagResult(r1, FALSE) ELSE
    With(writeString(r1.w, tag, r1.n), LAMBDA r2 :
        IF r2.err THEN tagResult(r2, FALSE) ELSE
    With(writeTagAttrs(r2, attr, order, format), LAMBDA r4 :
        IF r4.err THEN tagResult(r4, FALSE) ELSE
    With(writeString(r4.w, <<">">>, r4.n), LAMBDA r5 :
        IF r5.err THEN tagResult(r5, FALSE)
        ELSE IF isVoid THEN tagResult(r5, FALSE) ELSE
    With(IF innerHtml.kind # "nil"
         THEN writeInner(r5.w, r5.n, innerHtml, noSpace, format)
         ELSE r5, LAMBDA r6 :
        IF r6.err \/ Panicked(r6) THEN tagResult(r6, innerHtml.kind # "nil") ELSE
    With(writeString(r6.w, <<"<", "/">>, r6.n), LAMBDA r7 :
        IF r7.err THEN tagResult(r7, innerHtml.kind # "nil") ELSE
    With(writeString(r7.w, tag, r7.n), LAMBDA r8 :
        IF r8.err THEN tagResult(r8, innerHtml.kind # "nil")
        ELSE tagResult(writeString(r8.w, <<">">>, r8.n), innerHtml.kind # "nil"))))))))

\* WriteVoidTag
WriteVoidTag(w, tag, attr, order) ==
    writeTag(w, tag, attr, order, NilWriterTo, TRUE, FALSE, FALSE)

\* WriteTag
WriteTag(w, tag, attr, order, innerHtml) ==
    writeTag(w, tag, attr, order, innerHtml, FALSE, FALSE, FALSE)

\* WriteTagFormatted
WriteTagFormatted(w, tag, attr, order, innerHtml) ==
    writeTag(w, tag, attr, order, innerHtml, FALSE, FALSE, TRUE)

\* WriteTagNoSpace
WriteTagNoSpace(w, tag, attr, order, innerHtml) ==
    writeTag(w, tag, attr, order, innerHtml, FALSE, TRUE, FALSE)

\* WriteTagNoSpaceFormatted
WriteTagNoSpaceFormatted(w, tag, attr, order, innerHtml) ==
    writeTag(w, tag, attr, order, innerHtml, FALSE, TRUE, TRUE)

\* the wto the Render* functions hand on: nil for an empty innerHtml
readerOrNil(innerHtml) ==
    IF innerHtml # <<>> THEN NewReader(innerHtml) ELSE NilWriterTo

\* RenderVoidTag
RenderVoidTag(tag, attr, order) == WriteVoidTag(NewBuilder, tag, attr, order).w.buf

\* RenderTag
RenderTag(tag, attr, order, innerHtml) ==
    WriteTag(NewBuilder, tag, attr, order, readerOrNil(innerHtml)).w.buf

\* RenderTagNoSpace
RenderTagNoSpace(tag, attr, order, innerHtml) ==
    WriteTagNoSpace(NewBuilder, tag, attr, order, readerOrNil(innerHtml)).w.buf

\* RenderTagFormatted
RenderTagFormatted(tag, attr, innerHtml) ==
    WriteTagFormatted(NewBuilder, tag, attr, sortedKeys(attr), readerOrNil(innerHtml)).w.buf

(***************************************************************************)
(* Specification SpecTag: one call of the tag writer.                      *)
(* Init draws the tag, the attributes, the map iteration order and the     *)
(* inner html; each action is one entry point, called with a sink that     *)
(* either never fails or accepts k bytes and then fails.                   *)
(***************************************************************************)

EmptyMap == [k \in {} |-> <<>>]
NoRet == [op |-> "none"]
NoBuilder == [tag |-> <<>>, attributes |-> EmptyMap, innerHtml |-> <<>>, isVoid |-> FALSE]

\* at most this many pieces make up an inner html of SpecTag
MaxInnerPieces == 2

TagNames == { <<"a">>, <<"b", "r">> }

TagAttrs ==
    { EmptyMap,
      (<<"b">> :> <<"c">>),
      (<<"b">> :> <<"<">>) @@ (<<"i", "d">> :> <<"x">>),
      (<<"z">> :> <<>>) @@ (<<"b">> :> <<"c">>) }

InnerPieces == { <<"d">>, <<"\n">>, <<" ", "e">>, textareaOpen \o <<">">>, textareaClose }

InnerHtmls ==
    {NilWriterTo} \cup {NewReader(s) : s \in Pieces(InnerPieces, MaxInnerPieces)}

TagCalls ==
    { [tag |-> t, attr |-> a, order |-> o, innerHtml |-> i] :
        t \in TagNames, a \in TagAttrs, o \in UNION {Orders(DOMAIN b) : b \in TagAttrs},
        i \in InnerHtmls }

InitTag ==
    /\ pc = "start"
    /\ call \in {c \in TagCalls : c.order \in Orders(DOMAIN c.attr)}
    /\ ret = NoRet
    /\ style = EmptyMap
    /\ attrs = EmptyMap
    /\ builder = NoBuilder

\* what the call wrote on a sink that never fails
FullRender(c, isVoid, noSpace, format) ==
    writeTag(NewBuilder, c.tag, c.attr, c.order, c.innerHtml, isVoid, noSpace, format).w.buf

\* the sinks a call is tried with
Sinks(c, isVoid, noSpace, format) ==
    {NewBuilder} \cup
    {newErrBuf(k) : k \in 0..Len(FullRender(c, isVoid, noSpace, format))}

TagRet(op, w, isVoid, noSpace, format, r) ==
    [op |-> op, isVoid |-> isVoid, noSpace |-> noSpace, format |-> format,
     limited |-> w.limited, cap |-> w.cap,
     out |-> r.w.buf, n |-> r.n, err |-> r.err, read |-> r.read]

DowriteTag ==
    /\ pc = "start"
    /\ \E isVoid \in BOOLEAN, noSpace \in BOOLEAN, format \in BOOLEAN :
         \E w \in Sinks(call, isVoid, noSpace, format) :
            ret' = TagRet("writeTag", w, isVoid, noSpace, format,
                          writeTag(w, call.tag, call.attr, call.order, call.innerHtml,
                                   isVoid, noSpace, format))
    /\ pc' = "done"
    /\ UNCHANGED <<call, style, attrs, builder>>

DoWriteVoidTag ==
    /\ pc = "start"
    /\ \E w \in Sinks(call, TRUE, FALSE, FALSE) :
          ret' = TagRet("WriteVoidTag", w, TRUE, FALSE, FALSE,
                        WriteVoidTag(w, call.tag, call.attr, call.order))
    /\ pc' = "done"
    /\ UNCHANGED <<call, style, attrs, builder>>

DoWriteTag ==
    /\ pc = "start"
    /\ \E w \in Sinks(call, FALSE, FALSE, FALSE) :
          ret' = TagRet("WriteTag", w, FALSE, FALSE, FALSE,
                        WriteTag(w, call.tag, call.attr, call.order, call.innerHtml))
    /\ pc' = "done"
    /\ UNCHANGED <<call, style, attrs, builder>>

DoWriteTagFormatted ==
    /\ pc = "start"
    /\ \E w \in Sinks(call, FALSE, FALSE, TRUE) :
          ret' = TagRet("WriteTagFormatted", w, FALSE, FALSE, TRUE,
                        WriteTagFormatted(w, call.tag, call.attr, call.order, call.innerHtml))
    /\ pc' = "done"
    /\ UNCHANGED <<call, style, attrs, builder>>

DoWriteTagNoSpace ==
    /\ pc = "start"
    /\ \E w \in Sinks(call, FALSE, TRUE, FALSE) :
          ret' = TagRet("WriteTagNoSpace", w, FALSE, TRUE, FALSE,
                        WriteTagNoSpace(w, call.tag, call.attr, call.order, call.innerHtml))
    /\ pc' = "done"
    /\ UNCHANGED <<call, style, attrs, builder>>

DoWriteTagNoSpaceFormatted ==
    /\ pc = "start"
    /\ \E w \in Sinks(call, FALSE, TRUE, TRUE) :
          ret' = TagRet("WriteTagNoSpaceFormatted", w, FALSE, TRUE, TRUE,
                        WriteTagNoSpaceFormatted(w, call.tag, call.attr, call.order,
                                                 call.innerHtml))
    /\ pc' = "done"
    /\ UNCHANGED <<call, style, attrs, builder>>

NextTag ==
    \/ DowriteTag
    \/ DoWriteVoidTag
    \/ DoWriteTag
    \/ DoWriteTagFormatted
    \/ DoWriteTagNoSpace
    \/ DoWriteTagNoSpaceFormatted

SpecTag == InitTag /\ [][NextTag]_vars

(***************************************************************************)
(* Properties of the tag writer (SpecTag)                                  *)
(***************************************************************************)

\* Attributes.String (order: the order range visits the map) and SortedString
String(a, order) == WriteTo(a, order, NewBuilder).w.buf
SortedString(a) == WriteSortedTo(a, NewBuilder).w.buf

\* '<', the tag name, a space and the attribute encoding if there are
\* attributes, '>'
OpenTagText(c, format) ==
    <<"<">> \o c.tag
        \o (IF DOMAIN c.attr # {}
            THEN <<" ">> \o (IF format THEN SortedString(c.attr)
                             ELSE String(c.attr, c.order))
            ELSE <<>>)
        \o <<">">>

CloseTagText(c) == <<"<", "/">> \o c.tag \o <<">">>

\* C1 as stated: a call of writeTag (or of an entry point built on it) on a
\* sink that accepts the first k bytes and then fails, k from 0 up to the
\* length of what the call writes on a sink that never fails, returns an
\* error and the count n = k.
C1_Original ==
    (pc = "done" /\ ret.limited
        /\ ret.cap <= Len(FullRender(call, ret.isVoid, ret.noSpace, ret.format)))
    => (ret.err /\ ret.n = ret.cap)

\* C1 as amended: for k below that length the call returns an error and the
\* count n = k, and k is the number of bytes the sink holds; for k equal to
\* that length every write fits, and the call returns no error and n = k.
C1_ByteAccounting ==
    (pc = "done" /\ ret.limited)
    => /\ ret.err = (ret.cap < Len(FullRender(call, ret.isVoid, ret.noSpace, ret.format)))
       /\ ret.n = ret.cap
       /\ Len(ret.out) = ret.cap

\* the sink failed in the middle of the indentation of the flushed buffer,
\* after the attributes were written
C1_Witness ==
    /\ pc = "done" /\ ret.limited /\ ret.err /\ ret.format /\ ~ret.noSpace
    /\ DOMAIN call.attr # {}
    /\ ret.n = Len(OpenTagText(call, TRUE)) + 3
    /\ SubSeq(ret.out, Len(ret.out) - 2, Len(ret.out)) = <<"\n", " ", " ">>

\* the inner content as the claim C2 has it: the content between two
\* newlines, or bare with noSpace, or nothing when there is no content
PlainInnerText(c, noSpace) ==
    IF c.innerHtml.kind = "nil" THEN <<>>
    ELSE IF noSpace THEN c.innerHtml.s
    ELSE <<"\n">> \o c.innerHtml.s \o <<"\n">>

\* C2 as stated: on a sink that never fails writeTag emits the opening tag,
\* then for a non-void tag the inner content (between two newlines unless
\* noSpace, nothing when absent) and the closing tag, and returns the length.
C2_Original ==
    (pc = "done" /\ ~ret.limited)
    => /\ ~ret.err
       /\ ret.out = OpenTagText(call, ret.format)
                       \o (IF ret.isVoid THEN <<>>
                           ELSE PlainInnerText(call, ret.noSpace) \o CloseTagText(call))
       /\ ret.n = Len(ret.out)

\* C2 as amended: the same, except that with format on and noSpace off the
\* content between its two newlines goes through Indent before it is emitted.
C2_EmittedText ==
    (pc = "done" /\ ~ret.limited)
    => /\ ~ret.err
       /\ ret.out = OpenTagText(call, ret.format)
                       \o (IF ret.isVoid THEN <<>>
                           ELSE (IF ret.format /\ ~ret.noSpace
                                 THEN Indent(PlainInnerText(call, FALSE))
                                 ELSE PlainInnerText(call, ret.noSpace))
                                \o CloseTagText(call))
       /\ ret.n = Len(ret.out)

\* the formatted rendering of the tests: <a b="c">\n  d\n</a>
C2_Witness ==
    /\ pc = "done" /\ ~ret.limited /\ ret.format /\ ~ret.noSpace /\ ~ret.isVoid
    /\ ret.out = <<"<", "a", " ", "b", "=", "\"", "c", "\"", ">", "\n",
                   " ", " ", "d", "\n", "<", "/", "a", ">">>
    /\ ret.n = 18

\* C3: with isVoid the output is the opening tag alone (what the sink
\* accepted of it), whatever the content source and the other flags, and the
\* content source is not read.
C3_VoidNoContent ==
    (pc = "done" /\ ret.isVoid)
    => /\ ~ret.read
       /\ ret.out = IF ret.limited
                    THEN SubSeq(OpenTagText(call, ret.format), 1,
                                Min(ret.cap, Len(OpenTagText(call, ret.format))))
                    ELSE OpenTagText(call, ret.format)

\* a void call that was handed a content source, with noSpace and format set
C3_Witness ==
    /\ pc = "done" /\ ret.isVoid /\ ret.noSpace /\ ret.format /\ ~ret.limited
    /\ call.innerHtml.kind = "reader" /\ call.innerHtml.s = <<"d">>
    /\ ret.out = OpenTagText(call, TRUE)

(***************************************************************************)
(* Specification SpecIndent: Indent, alone and through RenderTagFormatted. *)
(***************************************************************************)

\* at most this many pieces make up a text handed to Indent
MaxIndentPieces == 4

IndentPieces ==
    { <<"d">>, <<"\n">>, <<" ">>, textareaOpen \o <<">">>, textareaClose }

InitIndent ==
    /\ pc = "start"
    /\ call \in {[s |-> s] : s \in Pieces(IndentPieces, MaxIndentPieces)}
    /\ ret = NoRet
    /\ style = EmptyMap
    /\ attrs = EmptyMap
    /\ builder = NoBuilder

DoIndent ==
    /\ pc = "start"
    /\ ret' = [op |-> "Indent", out |-> Indent(call.s)]
    /\ pc' = "done"
    /\ UNCHANGED <<call, style, attrs, builder>>

DoRenderTagFormatted ==
    /\ pc = "start"
    /\ ret' = [op |-> "RenderTagFormatted",
               out |-> RenderTagFormatted(<<"a">>, (<<"b">> :> <<"c">>), call.s)]
    /\ pc' = "done"
    /\ UNCHANGED <<call, style, attrs, builder>>

NextIndent == DoIndent \/ DoRenderTagFormatted

SpecIndent == InitIndent /\ [][NextIndent]_vars

\* every '<textarea' of s is followed by a '</textarea>'
RECURSIVE AllTextareasClosed(_)
AllTextareasClosed(s) ==
    With(Index(s, textareaOpen), LAMBDA o :
        IF o < 0 THEN TRUE
        ELSE With(Index(Slice(s, o, Len(s)), textareaClose), LAMBDA c :
                IF c < 0 THEN FALSE
                ELSE With(Slice(s, o + c + Len(textareaClose), Len(s)), LAMBDA rest :
                        AllTextareasClosed(rest))))

\* The indentation the claim C5 describes: every '<textarea' ... '</textarea>'
\* region is copied as it is, and the lines of the text outside the regions
\* are prefixed with two spaces (an empty line stays empty). From a
\* '<textarea' with no '</textarea>' after it on, the text is copied as it is.
RECURSIVE IndentAsClaimed(_)
IndentAsClaimed(s) ==
    With(Index(s, textareaOpen), LAMBDA o :
        IF o < 0 THEN indent(s)
        ELSE With(Index(Slice(s, o, Len(s)), textareaClose), LAMBDA c :
                IF c < 0 THEN indent(Slice(s, 0, o)) \o Slice(s, o, Len(s))
                ELSE With(Slice(s, o + c + Len(textareaClose), Len(s)), LAMBDA rest :
                        indent(Slice(s, 0, o))
                            \o Slice(s, o, o + c + Len(textareaClose))
                            \o IndentAsClaimed(rest))))

\* the results the claim C5, the fallback of the specification and the comment
\* in Indent ("just return the original") allow for the text s
IndentAllowed(s) ==
    {IndentAsClaimed(s)} \cup (IF AllTextareasClosed(s) THEN {} ELSE {s})

\* C5: with format on and noSpace off the buffered inner content is
\* indented line by line, the textarea regions excepted, the markup before
\* and after a region still being indented.
C5_Indentation ==
    pc = "done" =>
        /\ ret.op = "Indent" => ret.out \in IndentAllowed(call.s)
        /\ (ret.op = "RenderTagFormatted" /\ call.s # <<>>) =>
              ret.out \in
                { <<"<", "a", " ", "b", "=", "\"", "c", "\"", ">">> \o t
                      \o <<"<", "/", "a", ">">> :
                  t \in IndentAllowed(<<"\n">> \o call.s \o <<"\n">>) }

\* what Indent does keep: the claimed indentation of a text whose textareas
\* are all closed (not a claim of its own; it delimits the failure of C5)
IndentOfClosedTextareas ==
    (pc = "done" /\ ret.op = "Indent" /\ AllTextareasClosed(call.s))
    => ret.out = IndentAsClaimed(call.s)

(***************************************************************************)
(* Style (style.go)                                                        *)
(*                                                                         *)
(* A float64 is modelled as an exact fraction n/d (d a power of ten times  *)
(* the divisors met), or as an infinity or a NaN. The values of the model  *)
(* are small, so the only places where float64 arithmetic can differ from  *)
(* exact arithmetic are a value that lies exactly halfway between two      *)
(* roundings (tie: the direction the floating error takes) and the         *)
(* conversion of a non-finite value to int (arch: implementation           *)
(* dependent in Go). The sign of a zero is not kept.                       *)
(***************************************************************************)

\* [\d]*: the number of digits of s from the 0-based offset i on
digitRun(s, i) ==
    CHOOSE n \in 0..(Len(s) - i) :
        /\ \A j \in 1..n : s[i + j] \in Digit
        /\ (n = Len(s) - i \/ s[i + n + 1] \notin Digit)

\* numericMatch, -?[\d]*(\.[\d]+)?: the length of its match at the 0-based
\* offset i of s (the pattern matches everywhere, each part being greedy)
numericMatch(s, i) ==
    With(IF i < Len(s) /\ s[i + 1] = "-" THEN 1 ELSE 0, LAMBDA sign :
    With(digitRun(s, i + sign), LAMBDA d :
    With(IF i + sign + d < Len(s) /\ s[i + sign + d + 1] = "."
         THEN digitRun(s, i + sign + d + 1) ELSE 0, LAMBDA frac :
        IF frac > 0 THEN sign + d + 1 + frac ELSE sign + d)))

\* numericMatcher.MatchString: ^numericMatch$
numericMatcher(value) == numericMatch(value, 0) = Len(value)

nonLengthNumerics ==
    { <<"v", "o", "l", "u", "m", "e">>, <<"s", "p", "e", "e", "c", "h", "-", "r", "a", "t", "e">>,
      <<"o", "r", "p", "h", "a", "n", "s">>, <<"w", "i", "d", "o", "w", "s">>,
      <<"p", "i", "t", "c", "h", "-", "r", "a", "n", "g", "e">>,
      <<"f", "o", "n", "t", "-", "w", "e", "i", "g", "h", "t">>,
      <<"z", "-", "i", "n", "d", "e", "x">>,
      <<"c", "o", "u", "n", "t", "e", "r", "-", "i", "n", "c", "r", "e", "m", "e", "n", "t">>,
      <<"c", "o", "u", "n", "t", "e", "r", "-", "r", "e", "s", "e", "t">> }

Fin(n, d) == [kind |-> "fin", n |-> n, d |-> d]
Inf(neg) == [kind |-> "inf", n |-> IF neg THEN 0 - 1 ELSE 1, d |-> 1]
NaN == [kind |-> "nan", n |-> 0, d |-> 1]

Abs(n) == IF n < 0 THEN 0 - n ELSE n

RECURSIVE Pow10(_)
Pow10(k) == IF k = 0 THEN 1 ELSE 10 * Pow10(k - 1)

\* the number a sequence of digits denotes
RECURSIVE Atoi(_)
Atoi(ds) ==
    IF ds = <<>> THEN 0
    ELSE With(SubSeq(ds, 1, Len(ds) - 1), LAMBDA front :
            10 * Atoi(front) + (Ord[ds[Len(ds)]] - Ord["0"]))

\* the decimal digits of a natural number
RECURSIVE Itoa(_)
Itoa(n) ==
    IF n < 10 THEN <<Ascii[Ord["0"] + n]>>
    ELSE With(n \div 10, LAMBDA q : Itoa(q) \o <<Ascii[Ord["0"] + (n % 10)]>>)

\* strconv.ParseFloat on a decimal without exponent: sign, digits, '.',
\* digits, one digit at least; anything else over the model's characters is
\* a syntax error
ParseFloat(s) ==
    With(IF s # <<>> /\ s[1] \in {"+", "-"} THEN Tail(s) ELSE s, LAMBDA body :
    With(Index(body, <<".">>), LAMBDA dot :
    With(IF dot < 0 THEN body ELSE Slice(body, 0, dot), LAMBDA ip :
    With(IF dot < 0 THEN <<>> ELSE Slice(body, dot + 1, Len(body)), LAMBDA fp :
        IF /\ \A i \in 1..Len(ip) : ip[i] \in Digit
           /\ \A i \in 1..Len(fp) : fp[i] \in Digit
           /\ Len(ip) + Len(fp) > 0
        THEN With(Atoi(ip \o fp), LAMBDA m :
                [err |-> FALSE,
                 f |-> Fin(IF s[1] = "-" THEN 0 - m ELSE m, Pow10(Len(fp)))])
        ELSE [err |-> TRUE, f |-> Fin(0, 1)]))))

\* q and r such that q + r/d = (q0 + r0/d) * 10^k, with 0 <= r < d
RECURSIVE scale(_, _, _, _)
scale(q, r, d, k) ==
    IF k = 0 THEN [q |-> q, r |-> r]
    ELSE With(q * 10 + ((r * 10) \div d), LAMBDA q2 :
         With((r * 10) % d, LAMBDA r2 : scale(q2, r2, d, k - 1)))

\* the conversion int(f) of a float64 that is not finite
intOfNonFinite(f, arch) ==
    IF arch = "amd64" THEN "MinInt64"
    ELSE IF f.kind = "nan" THEN "0"
    ELSE IF f.n < 0 THEN "MinInt64" ELSE "MaxInt64"

\* roundFloat
roundFloat(f, digits, tie, arch) ==
    IF f.kind # "fin"
    THEN With(intOfNonFinite(f, arch), LAMBDA v :
            IF v = "0" THEN Fin(0, Pow10(digits))
            ELSE [kind |-> v, n |-> 0, d |-> Pow10(digits)])
    ELSE With(scale(Abs(f.n) \div f.d, Abs(f.n) % f.d, f.d, digits), LAMBDA m :
         With(IF 2 * m.r > f.d \/ (2 * m.r = f.d /\ tie) THEN m.q + 1 ELSE m.q,
              LAMBDA v : Fin(IF f.n < 0 THEN 0 - v ELSE v, Pow10(digits))))

\* ds without its trailing zeros
stripZeros(ds) ==
    With({i \in 1..Len(ds) : ds[i] # "0"}, LAMBDA nz :
        IF nz = {} THEN <<>>
        ELSE SubSeq(ds, 1, CHOOSE i \in nz : \A j \in nz : j <= i))

\* fmt.Sprint of the float64 v / 10^digits that roundFloat returns: the
\* shortest decimal, with an exponent below 1e-4 and from 1e6 on
Sprint(f, digits) ==
    IF f.kind = "MinInt64" THEN <<"-", "9", ".", "2", "2", "3", "3", "7", "2", "0", "3", "6", "8", "5", "4", "7", "7", "5", "e", "+", "1", "2">>
    ELSE IF f.kind = "MaxInt64" THEN <<"9", ".", "2", "2", "3", "3", "7", "2", "0", "3", "6", "8", "5", "4", "7", "7", "5", "e", "+", "1", "2">>
    ELSE IF f.n = 0 THEN <<"0">>
    ELSE With(Itoa(Abs(f.n)), LAMBDA ds :
         With(stripZeros(ds), LAMBDA sd :
         With(Len(ds) - 1 - digits, LAMBDA exp :
         With(IF f.n < 0 THEN <<"-">> ELSE <<>>, LAMBDA sign :
            IF exp < 0 - 4 \/ exp >= 6
            THEN sign \o <<sd[1]>>
                    \o (IF Len(sd) > 1 THEN <<".">> \o Tail(sd) ELSE <<>>)
                    \o <<"e", IF exp < 0 THEN "-" ELSE "+">>
                    \o (IF Abs(exp) < 10 THEN <<"0">> ELSE <<>>) \o Itoa(Abs(exp))
            ELSE IF exp >= 0
            THEN sign \o SubSeq(ds, 1, exp + 1)
                    \o With(stripZeros(SubSeq(ds, exp + 2, Len(ds))), LAMBDA fr :
                          IF fr = <<>> THEN <<>> ELSE <<".">> \o fr)
            ELSE sign \o <<"0", ".">> \o [i \in 1..(0 - exp - 1) |-> "0"] \o sd))))

\* opReplacer(op, v)(cur); panic tells that the function panicked
opReplacer(op, v, cur, tie, arch) ==
    IF cur = <<>> THEN [panic |-> FALSE, s |-> <<>>]
    ELSE With(ParseFloat(cur), LAMBDA p :
        IF p.err \/ op \notin {"+", "-", "*", "/"} THEN [panic |-> TRUE, s |-> <<>>]
        ELSE With(CASE op = "+" -> Fin(p.f.n * v.d + v.n * p.f.d, p.f.d * v.d)
                    [] op = "-" -> Fin(p.f.n * v.d - v.n * p.f.d, p.f.d * v.d)
                    [] op = "*" -> Fin(p.f.n * v.n, p.f.d * v.d)
                    [] op = "/" -> IF v.n = 0
                                   THEN (IF p.f.n = 0 THEN NaN ELSE Inf(p.f.n < 0))
                                   ELSE Fin(IF v.n < 0 THEN 0 - (p.f.n * v.d)
                                            ELSE p.f.n * v.d, p.f.d * Abs(v.n)),
                  LAMBDA newVal :
                    [panic |-> FALSE, s |-> Sprint(roundFloat(newVal, 6, tie, arch), 6)]))

\* numericReplacer.ReplaceAllStringFunc(src, opReplacer(op, v)): the loop of
\* regexp.replaceAll from searchPos on, buf being the output so far
RECURSIVE ReplaceAllStringFunc(_, _, _, _, _, _, _, _)
ReplaceAllStringFunc(src, searchPos, lastMatchEnd, buf, op, v, tie, arch) ==
    IF searchPos > Len(src)
    THEN [panic |-> FALSE, s |-> buf \o Slice(src, lastMatchEnd, Len(src))]
    ELSE With(searchPos + numericMatch(src, searchPos), LAMBDA a1 :
         With(IF a1 > lastMatchEnd \/ searchPos = 0
              THEN opReplacer(op, v, Slice(src, searchPos, a1), tie, arch)
              ELSE [panic |-> FALSE, s |-> <<>>], LAMBDA r :
            IF r.panic THEN r
            ELSE With(buf \o Slice(src, lastMatchEnd, searchPos) \o r.s, LAMBDA buf2 :
                 With(IF searchPos + 1 > a1 THEN searchPos + 1 ELSE a1, LAMBDA next :
                    ReplaceAllStringFunc(src, next, a1, buf2, op, v, tie, arch)))))

\* Style.Get
Get(s, property) == IF property \in DOMAIN s THEN s[property] ELSE <<>>

\* Style.set: a raw set, changed telling whether the map changed
set(s, k, v) ==
    [s |-> (k :> v) @@ s, changed |-> k \notin DOMAIN s \/ s[k] # v,
     err |-> FALSE, panic |-> FALSE]

\* Style.mathOp
mathOp(s, property, op, val, tie, arch) ==
    With(IF Get(s, property) = <<>> THEN <<"0">> ELSE Get(s, property), LAMBDA cur :
    With(ParseFloat(val), LAMBDA p :
        IF p.err THEN [s |-> s, changed |-> FALSE, err |-> TRUE, panic |-> FALSE]
        ELSE With(ReplaceAllStringFunc(cur, 0, 0, <<>>, op, p.f, tie, arch), LAMBDA r :
                IF r.panic
                THEN [s |-> s, changed |-> FALSE, err |-> FALSE, panic |-> TRUE]
                ELSE set(s, property, r.s))))

\* Style.SetChanged
SetChanged(s, property, value, tie, arch) ==
    IF Contains(property, <<" ">>)
    THEN [s |-> s, changed |-> FALSE, err |-> TRUE, panic |-> FALSE]
    ELSE IF \/ HasPrefix(value, <<"+", " ">>) \/ HasPrefix(value, <<"-", " ">>)
            \/ HasPrefix(value, <<"*", " ">>) \/ HasPrefix(value, <<"/", " ">>)
    THEN mathOp(s, property, value[1], Slice(value, 2, Len(value)), tie, arch)
    ELSE IF value = <<"0">> THEN set(s, property, value)
    ELSE IF numericMatcher(value)
    THEN set(s, property,
             IF property \notin nonLengthNumerics THEN value \o <<"p", "x">> ELSE value)
    ELSE set(s, property, value)

\* Style.RemoveAll
RemoveAll(s) == [k \in {} |-> <<>>]

\* the loop of Style.SetString over the segments a, from the i-th on
RECURSIVE setStringLoop(_, _, _, _, _, _)
setStringLoop(s, a, i, changed, tie, arch) ==
    IF i > Len(a) THEN [s |-> s, changed |-> changed, err |-> FALSE, panic |-> FALSE]
    ELSE With(Split(a[i], ":"), LAMBDA b :
        IF Len(b) # 2 THEN [s |-> s, changed |-> changed, err |-> TRUE, panic |-> FALSE]
        ELSE With(SetChanged(s, TrimSpace(b[1]), TrimSpace(b[2]), tie, arch), LAMBDA r :
            IF r.err \/ r.panic
            THEN [s |-> r.s, changed |-> changed, err |-> r.err, panic |-> r.panic]
            ELSE With(changed \/ r.changed, LAMBDA c2 :
                    setStringLoop(r.s, a, i + 1, c2, tie, arch))))

\* Style.SetString
SetString(s, text, tie, arch) ==
    With(Split(text, ";"), LAMBDA a : setStringLoop(RemoveAll(s), a, 1, FALSE, tie, arch))

\* sort.Strings
sortStrings(S) ==
    [i \in 1..Cardinality(S) |->
        CHOOSE k \in S : Cardinality({o \in S : StrLess(o, k)}) = i - 1]

\* Style.encode (Style.String returns it): property:value pairs joined by ';'
encode(s) ==
    With(sortStrings(DOMAIN s), LAMBDA keys :
        Join([i \in 1..Len(keys) |-> keys[i] \o <<":">> \o Get(s, keys[i])], <<";">>))

(***************************************************************************)
(* Specification SpecStyle: a Style that starts empty and receives calls   *)
(* of SetChanged, SetString and String. A panic ends the run.              *)
(***************************************************************************)

\* at most this many calls are made on the Style
MaxStyleCalls == 2

\* the properties: width, z-index (not a length), "a b" (not a name)
StyleProps == { <<"w", "i", "d", "t", "h">>, <<"z", "-", "i", "n", "d", "e", "x">>,
      <<"a", " ", "b">> }

\* the values: 0, 4, the empty string, -, -1.5, auto, 4em, "2em 9px", 7.6in,
\* 1.6in, "9px - 2em", and the arithmetic * 2, / 2, + 2, - 2, / 3, * 0.5, / 0, + a,
\* sans-serif
StyleValues ==
    { <<"0">>, <<"4">>, <<>>, <<"-">>, <<"-", "1", ".", "5">>, <<"a", "u", "t", "o">>,
      <<"4", "e", "m">>, <<"2", "e", "m", " ", "9", "p", "x">>, <<"7", ".", "6", "i", "n">>,
      <<"1", ".", "6", "i", "n">>,
      <<"9", "p", "x", " ", "-", " ", "2", "e", "m">>, <<"*", " ", "2">>, <<"/", " ", "2">>,
      <<"+", " ", "2">>, <<"-", " ", "2">>, <<"/", " ", "3">>, <<"*", " ", "0", ".", "5">>,
      <<"/", " ", "0">>, <<"+", " ", "a">>, <<"s", "a", "n", "s", "-", "s", "e", "r", "i", "f">> }

\* the texts: the empty text, "width: 4", "width:4em;z-index: 3",
\* "z-index:3; width", "width: + 5", "width:", "z-index: 2; z-index: * 3",
\* "a b: 3; width: 4", "width: + a", "width: 1 - 2; width: * 2", "width:auto;"
StyleTexts ==
    { <<>>, <<"w", "i", "d", "t", "h", ":", " ", "4">>,
      <<"w", "i", "d", "t", "h", ":", "4", "e", "m", ";", "z", "-", "i", "n", "d", "e", "x", ":", " ", "3">>,
      <<"z", "-", "i", "n", "d", "e", "x", ":", "3", ";", " ", "w", "i", "d", "t", "h">>,
      <<"w", "i", "d", "t", "h", ":", " ", "+", " ", "5">>,
      <<"w", "i", "d", "t", "h", ":">>,
      <<"z", "-", "i", "n", "d", "e", "x", ":", " ", "2", ";", " ", "z", "-", "i", "n", "d", "e", "x", ":", " ", "*", " ", "3">>,
      <<"a", " ", "b", ":", " ", "3", ";", " ", "w", "i", "d", "t", "h", ":", " ", "4">>,
      <<"w", "i", "d", "t", "h", ":", " ", "+", " ", "a">>,
      <<"w", "i", "d", "t", "h", ":", " ", "1", " ", "-", " ", "2", ";", " ", "w", "i", "d", "t", "h", ":", " ", "*", " ", "2">>,
      <<"w", "i", "d", "t", "h", ":", "a", "u", "t", "o", ";">> }

Archs == {"amd64", "arm64"}

\* a numeric run of a value that receives arithmetic has at most this many
\* characters (the numbers stay within 32-bit integers)
MaxNumberLen == 9

NumbersInBounds(cur) ==
    \A i \in 0..(Len(cur) - 1) : numericMatch(cur, i) <= MaxNumberLen

InitStyle ==
    /\ pc = "ready"
    /\ call = [k |-> 0]
    /\ ret = NoRet
    /\ style = EmptyMap
    /\ attrs = EmptyMap
    /\ builder = NoBuilder

StyleRet(op, r) ==
    [op |-> op, before |-> style, after |-> r.s, changed |-> r.changed,
     err |-> r.err, panic |-> r.panic]

DoSetChanged ==
    /\ pc = "ready" /\ call.k < MaxStyleCalls
    /\ \E property \in StyleProps, value \in StyleValues, tie \in BOOLEAN, arch \in Archs :
         /\ NumbersInBounds(Get(style, property))
         /\ call' = [k |-> call.k + 1, property |-> property, value |-> value,
                     tie |-> tie, arch |-> arch]
         /\ ret' = StyleRet("SetChanged", SetChanged(style, property, value, tie, arch))
    /\ style' = ret'.after
    /\ pc' = IF ret'.panic THEN "panicked" ELSE "ready"
    /\ UNCHANGED <<attrs, builder>>

DoSetString ==
    /\ pc = "ready" /\ call.k < MaxStyleCalls
    /\ \E text \in StyleTexts, tie \in BOOLEAN, arch \in Archs :
         /\ call' = [k |-> call.k + 1, text |-> text, tie |-> tie, arch |-> arch]
         /\ ret' = StyleRet("SetString", SetString(style, text, tie, arch))
    /\ style' = ret'.after
    /\ pc' = IF ret'.panic THEN "panicked" ELSE "ready"
    /\ UNCHANGED <<attrs, builder>>

DoString ==
    /\ pc = "ready" /\ call.k < MaxStyleCalls
    /\ call' = [k |-> call.k + 1]
    /\ ret' = [op |-> "String", out |-> encode(style)]
    /\ UNCHANGED <<pc, style, attrs, builder>>

NextStyle == DoSetChanged \/ DoSetString \/ DoString

SpecStyle == InitStyle /\ [][NextStyle]_vars

(***************************************************************************)
(* Properties of Style (SpecStyle)                                         *)
(***************************************************************************)

\* the value is handed to mathOp: an operator, a space, an operand
IsArithmetic(value) ==
    \/ HasPrefix(value, <<"+", " ">>) \/ HasPrefix(value, <<"-", " ">>)
    \/ HasPrefix(value, <<"*", " ">>) \/ HasPrefix(value, <<"/", " ">>)

\* a number in the sense of the claims C6 and C7: -?digits(.digits)? with a
\* digit in it (the empty string and a lone '-' are no numbers)
IsNumber(value) ==
    numericMatcher(value) /\ \E i \in 1..Len(value) : value[i] \in Digit

\* what the claim C6 has SetChanged store for a value that is not arithmetic
ClaimedStored(property, value) ==
    IF value = <<"0">> THEN value
    ELSE IF IsNumber(value) /\ property \notin nonLengthNumerics
    THEN value \o <<"p", "x">>
    ELSE value

\* C6: SetChanged with a value that is not arithmetic stores "0" as it is, a
\* number with px appended unless the property is a non-length one, and
\* every other value, the empty string and a lone '-' included, verbatim.
C6_NonArithmetic ==
    (ret.op = "SetChanged" /\ ~IsArithmetic(call.value)
        /\ ~Contains(call.property, <<" ">>))
    => /\ ~ret.err /\ ~ret.panic
       /\ call.property \in DOMAIN style
       /\ style[call.property] = ClaimedStored(call.property, call.value)

\* what SetChanged does keep of C6: the claim for every value but "" and "-"
StoredUnlessEmptyOrMinus ==
    (ret.op = "SetChanged" /\ ~IsArithmetic(call.value)
        /\ ~Contains(call.property, <<" ">>) /\ call.value \notin {<<>>, <<"-">>})
    => /\ ~ret.err /\ ~ret.panic
       /\ style[call.property] = ClaimedStored(call.property, call.value)

\* what the claim C7 has the arithmetic make of src from the offset pos on:
\* every numeric run (a match of the pattern with a digit in it) is replaced
\* by the rounded result, everything else is kept
RECURSIVE ClaimedMath(_, _, _, _, _, _)
ClaimedMath(src, pos, op, v, tie, arch) ==
    IF pos >= Len(src) THEN <<>>
    ELSE With(numericMatch(src, pos), LAMBDA m :
            IF IsNumber(Slice(src, pos, pos + m))
            THEN opReplacer(op, v, Slice(src, pos, pos + m), tie, arch).s
                    \o ClaimedMath(src, pos + m, op, v, tie, arch)
            ELSE <<src[pos + 1]>> \o ClaimedMath(src, pos + 1, op, v, tie, arch))

\* the call is an arithmetic SetChanged with a numeric operand that does not
\* divide by zero
IsMathCall ==
    /\ ret.op = "SetChanged" /\ IsArithmetic(call.value)
    /\ ~Contains(call.property, <<" ">>)
    /\ ~ParseFloat(Slice(call.value, 2, Len(call.value))).err
    /\ ~(call.value[1] = "/" /\ ParseFloat(Slice(call.value, 2, Len(call.value))).f.n = 0)

\* the value the arithmetic starts from
MathBase == IF Get(ret.before, call.property) = <<>> THEN <<"0">>
            ELSE Get(ret.before, call.property)

\* C7: SetChanged(p, "<op> <number>") replaces every numeric run of the
\* current value of p ("0" when there is none) by op applied to it and the
\* operand, rounded to 6 decimal digits, and keeps the rest of the value.
C7_Arithmetic ==
    IsMathCall
    => /\ ~ret.panic /\ ~ret.err
       /\ Get(style, call.property)
            = ClaimedMath(MathBase, 0, call.value[1],
                          ParseFloat(Slice(call.value, 2, Len(call.value))).f,
                          call.tie, call.arch)

\* what mathOp does keep of C7: the claim whenever the call does not panic
MathUnlessPanic ==
    (IsMathCall /\ ~ret.panic)
    => /\ ~ret.err
       /\ Get(style, call.property)
            = ClaimedMath(MathBase, 0, call.value[1],
                          ParseFloat(Slice(call.value, 2, Len(call.value))).f,
                          call.tie, call.arch)

\* C8: the Style that a SetString without error has built is the Style that
\* SetString builds from its encoding.
C8_RoundTrip ==
    (ret.op = "SetString" /\ ~ret.err /\ ~ret.panic)
    => With(SetString(EmptyMap, encode(style), call.tie, call.arch), LAMBDA r :
            ~r.err /\ ~r.panic /\ r.s = style)

\* C9: after a SetString that returned an error the Style holds no property.
C9_ResetOnError ==
    (ret.op = "SetString" /\ ret.err) => style = EmptyMap

\* what SetString does keep of C9: the properties held before the call are gone
ErrorDropsEarlierProperties ==
    (ret.op = "SetString" /\ ret.err)
    => \A k \in DOMAIN style :
          \E i \in 1..Len(Split(call.text, ";")) :
              TrimSpace(Split(Split(call.text, ";")[i], ":")[1]) = k

(***************************************************************************)
(* Words of a class list (class.go) and data-* names                       *)
(***************************************************************************)

\* mutant of mergeLoop: every new word is appended, present or not
mergeLoop_appendsAll(wordArray, newWordArray, i) == wordArray \o newWordArray

\* the loop of MergeWords: the words of newWordArray from the i-th on are
\* appended to wordArray unless they are in it
RECURSIVE mergeLoop(_, _, _)
mergeLoop(wordArray, newWordArray, i) ==
    IF i > Len(newWordArray) THEN wordArray
    ELSE With(IF \E j \in 1..Len(wordArray) : wordArray[j] = newWordArray[i]
              THEN wordArray ELSE Append(wordArray, newWordArray[i]), LAMBDA w2 :
            mergeLoop(w2, newWordArray, i + 1))

\* MergeWords
MergeWords(originalValues, newValues) ==
    With(Fields(originalValues), LAMBDA wordArray :
    With(Fields(newValues), LAMBDA newWordArray :
        Join(mergeLoop(wordArray, newWordArray, 1), <<" ">>)))

\* RemoveWords
RemoveWords(originalValues, removeValues) ==
    With(Fields(originalValues), LAMBDA classes :
    With(Fields(removeValues), LAMBDA removeClasses :
        TrimSpace(Concat([i \in 1..Len(classes) |->
            IF \E j \in 1..Len(removeClasses) : removeClasses[j] = classes[i]
            THEN <<>> ELSE classes[i] \o <<" ">>]))))

\* strings.ToLower of one character
ToLower(c) == IF c \in Upper THEN Ascii[Ord[c] - Ord["A"] + Ord["a"]] ELSE c

\* strings.ContainsAny
ContainsAny(s, chars) == \E i \in 1..Len(s) : s[i] \in chars

\* ToDataAttr: camelCase to kebab-case; an error when ^[^a-z]|[A-Z][A-Z]|\W
\* matches
ToDataAttr(s) ==
    IF \/ (s # <<>> /\ s[1] \notin Lower)
       \/ \E i \in 1..(Len(s) - 1) : s[i] \in Upper /\ s[i + 1] \in Upper
       \/ \E i \in 1..Len(s) : s[i] \notin WordChar
    THEN [s |-> s, err |-> TRUE]
    ELSE With(Concat([i \in 1..Len(s) |->
                        IF s[i] \in Upper THEN <<"-", ToLower(s[i])>> ELSE <<s[i]>>]),
              LAMBDA k :
                [s |-> TrimSpace(IF HasPrefix(k, <<"-">>) THEN Tail(k) ELSE k),
                 err |-> FALSE])

(***************************************************************************)
(* Attributes: the store (attributes.go)                                   *)
(* Every operation returns the store a, the changed flag, err (an error    *)
(* was returned) and panic (the call panicked).                            *)
(***************************************************************************)

FalseValue == <<"*", "*", "G", "O", "R", "A", "D", "D", "-", "F", "A", "L", "S", "E", "*", "*">>

AttrResult(a, changed) == [a |-> a, changed |-> changed, err |-> FALSE, panic |-> FALSE]
AttrError(a) == [a |-> a, changed |-> FALSE, err |-> TRUE, panic |-> FALSE]
AttrPanic(a) == [a |-> a, changed |-> FALSE, err |-> FALSE, panic |-> TRUE]

\* Attributes.Has
Has(a, attr) == attr \in DOMAIN a

\* Attributes.Get
Attributes_Get(a, attr) == IF attr \in DOMAIN a THEN a[attr] ELSE <<>>

\* Attributes.set
Attributes_set(a, k, v) == AttrResult((k :> v) @@ a, k \notin DOMAIN a \/ a[k] # v)

\* mutant of RemoveAttribute: the attribute is reported and not deleted
RemoveAttribute_keeps(a, name) == AttrResult(a, Has(a, name))

\* Attributes.RemoveAttribute
RemoveAttribute(a, name) ==
    IF Has(a, name) THEN AttrResult([k \in DOMAIN a \ {name} |-> a[k]], TRUE)
    ELSE AttrResult(a, FALSE)

\* Attributes.SetIDChanged
SetIDChanged(a, i) ==
    IF i = <<>> THEN RemoveAttribute(a, <<"i", "d">>)
    ELSE IF ContainsAny(i, {" "}) THEN AttrError(a)
    ELSE Attributes_set(a, <<"i", "d">>, i)

\* Attributes.AddValuesChanged
AddValuesChanged(a, attrKey, values) ==
    IF values = <<>> THEN AttrResult(a, FALSE)
    ELSE IF Has(a, attrKey)
    THEN With(MergeWords(Attributes_Get(a, attrKey), values), LAMBDA newValues :
            IF newValues # Attributes_Get(a, attrKey)
            THEN AttrResult(Attributes_set(a, attrKey, newValues).a, TRUE)
            ELSE AttrResult(a, FALSE))
    ELSE AttrResult(Attributes_set(a, attrKey, values).a, TRUE)

\* Attributes.AddClassChanged
AddClassChanged(a, v) == AddValuesChanged(a, <<"c", "l", "a", "s", "s">>, v)

\* Attributes.RemoveClass
RemoveClass(a, v) ==
    IF Has(a, <<"c", "l", "a", "s", "s">>)
    THEN With(RemoveWords(Attributes_Get(a, <<"c", "l", "a", "s", "s">>), v), LAMBDA newClass :
            IF Attributes_Get(a, <<"c", "l", "a", "s", "s">>) # newClass
            THEN AttrResult(Attributes_set(a, <<"c", "l", "a", "s", "s">>, newClass).a, TRUE)
            ELSE AttrResult(a, FALSE))
    ELSE AttrResult(a, FALSE)

\* Attributes.SetClassChanged
SetClassChanged(a, value) ==
    IF value = <<>> THEN RemoveAttribute(a, <<"c", "l", "a", "s", "s">>)
    ELSE IF HasPrefix(value, <<"+", " ">>)
    THEN AddClassChanged(a, Slice(value, 2, Len(value)))
    ELSE IF HasPrefix(value, <<"-", " ">>)
    THEN RemoveClass(a, Slice(value, 2, Len(value)))
    ELSE Attributes_set(a, <<"c", "l", "a", "s", "s">>, value)

\* Attributes.SetDataChanged
SetDataChanged(a, name, v) ==
    IF ContainsAny(name, {" ", "!", "$"}) THEN AttrError(a)
    ELSE With(ToDataAttr(name), LAMBDA suffix :
            IF suffix.err THEN AttrError(a)
            ELSE Attributes_set(a, <<"d", "a", "t", "a", "-">> \o suffix.s, v))

\* Attributes.StyleString
StyleString(a) == Attributes_Get(a, <<"s", "t", "y", "l", "e">>)

\* Attributes.StyleMap: the Style parsed from the style attribute, the error
\* of the parse being dropped
StyleMap(a, tie, arch) == SetString(EmptyMap, StyleString(a), tie, arch)

\* mutant of SetStyleChanged: the style attribute is set whatever err is
SetStyleChanged_setsOnError(a, name, v, tie, arch) ==
    With(StyleMap(a, tie, arch), LAMBDA s :
        IF s.panic THEN AttrPanic(a)
        ELSE With(SetChanged(s.s, name, v, tie, arch), LAMBDA r :
            IF r.panic THEN AttrPanic(a)
            ELSE [a |-> Attributes_set(a, <<"s", "t", "y", "l", "e">>, encode(r.s)).a,
                  changed |-> r.changed, err |-> r.err, panic |-> FALSE]))

\* Attributes.SetStyleChanged
SetStyleChanged(a, name, v, tie, arch) ==
    With(StyleMap(a, tie, arch), LAMBDA s :
        IF s.panic THEN AttrPanic(a)
        ELSE With(SetChanged(s.s, name, v, tie, arch), LAMBDA r :
            IF r.panic THEN AttrPanic(a)
            ELSE IF r.err THEN [a |-> a, changed |-> r.changed, err |-> TRUE,
                                panic |-> FALSE]
            ELSE AttrResult(Attributes_set(a, <<"s", "t", "y", "l", "e">>, encode(r.s)).a, r.changed)))

\* Attributes.SetChanged
Attributes_SetChanged(a, name, v, tie, arch) ==
    IF Contains(name, <<" ">>) THEN AttrError(a)
    ELSE IF v = FalseValue THEN RemoveAttribute(a, name)
    ELSE IF name = <<"s", "t", "y", "l", "e">>
    THEN With(SetString(EmptyMap, v, tie, arch), LAMBDA styles :
            IF styles.panic THEN AttrPanic(a)
            ELSE IF styles.err THEN AttrError(a)
            ELSE With(StyleMap(a, tie, arch), LAMBDA oldStyles :
                    IF oldStyles.panic THEN AttrPanic(a)
                    ELSE IF oldStyles.s # styles.s
                    THEN AttrResult((<<"s", "t", "y", "l", "e">> :> encode(styles.s)) @@ a, TRUE)
                    ELSE AttrResult(a, FALSE)))
    ELSE IF name = <<"i", "d">> THEN SetIDChanged(a, v)
    ELSE IF name = <<"c", "l", "a", "s", "s">> THEN SetClassChanged(a, v)
    ELSE IF HasPrefix(name, <<"d", "a", "t", "a", "-">>) THEN SetDataChanged(a, Slice(name, 5, Len(name)), v)
    ELSE Attributes_set(a, name, v)

(***************************************************************************)
(* Specification SpecAttr: an Attributes store that starts empty and       *)
(* receives calls of its fallible setters. A panic ends the run.           *)
(***************************************************************************)

\* at most this many calls are made on the store
MaxAttrCalls == 2

\* the names: id, class, style, title, "a b", data-testVar, data-test-var
AttrNames ==
    { <<"i", "d">>, <<"c", "l", "a", "s", "s">>, <<"s", "t", "y", "l", "e">>,
      <<"t", "i", "t", "l", "e">>, <<"a", " ", "b">>,
      <<"d", "a", "t", "a", "-", "t", "e", "s", "t", "V", "a", "r">>,
      <<"d", "a", "t", "a", "-", "t", "e", "s", "t", "-", "v", "a", "r">> }

\* the values: the empty string, x, "x y", FalseValue, "+ y", "- x",
\* "width: 4", "z-index:3; width", "width: + a", "top:4px;width:4px",
\* "width:4; top:4", x and y on two lines
AttrValues ==
    { <<>>, <<"x">>, <<"x", " ", "y">>, FalseValue, <<"+", " ", "y">>, <<"-", " ", "x">>,
      <<"x", "\n", "y">>,
      <<"w", "i", "d", "t", "h", ":", " ", "4">>,
      <<"t", "o", "p", ":", "4", "p", "x", ";", "w", "i", "d", "t", "h", ":", "4", "p", "x">>,
      <<"w", "i", "d", "t", "h", ":", "4", ";", " ", "t", "o", "p", ":", "4">>,
      <<"z", "-", "i", "n", "d", "e", "x", ":", "3", ";", " ", "w", "i", "d", "t", "h">>,
      <<"w", "i", "d", "t", "h", ":", " ", "+", " ", "a">> }

\* the data names: testVar, a, a$, test-var, tAB, the empty name
DataNames == { <<"t", "e", "s", "t", "V", "a", "r">>, <<"a">>, <<"a", "$">>,
      <<"t", "e", "s", "t", "-", "v", "a", "r">>, <<"t", "A", "B">>, <<>> }

DataValues == { <<>>, <<"x">> }

StyleNames == { <<"w", "i", "d", "t", "h">>, <<"z", "-", "i", "n", "d", "e", "x">>,
      <<"a", " ", "b">> }

\* the style values: 4, 0, auto, + 2, * 2, + a, a:b
StyleSetValues == { <<"4">>, <<"0">>, <<"a", "u", "t", "o">>, <<"+", " ", "2">>, <<"*", " ", "2">>,
      <<"+", " ", "a">>, <<"a", ":", "b">> }

InitAttr ==
    /\ pc = "ready"
    /\ call = [k |-> 0]
    /\ ret = NoRet
    /\ style = EmptyMap
    /\ attrs = EmptyMap
    /\ builder = NoBuilder

AttrRet(op, r) ==
    [op |-> op, before |-> attrs, after |-> r.a, changed |-> r.changed,
     err |-> r.err, panic |-> r.panic]

\* (no style text of AttrValues reaches a rounding or a division, so tie and
\* arch make no difference here, nor in the calls of SpecBuilder)
DoAttributesSetChanged ==
    /\ pc = "ready" /\ call.k < MaxAttrCalls
    /\ \E name \in AttrNames, v \in AttrValues :
         /\ call' = [k |-> call.k + 1, name |-> name, v |-> v]
         /\ ret' = AttrRet("SetChanged",
                           Attributes_SetChanged(attrs, name, v, TRUE, "amd64"))
    /\ attrs' = ret'.after
    /\ pc' = IF ret'.panic THEN "panicked" ELSE "ready"
    /\ UNCHANGED <<style, builder>>

DoSetIDChanged ==
    /\ pc = "ready" /\ call.k < MaxAttrCalls
    /\ \E i \in AttrValues :
         /\ call' = [k |-> call.k + 1, name |-> <<"i", "d">>, v |-> i]
         /\ ret' = AttrRet("SetIDChanged", SetIDChanged(attrs, i))
    /\ attrs' = ret'.after
    /\ pc' = "ready"
    /\ UNCHANGED <<style, builder>>

DoSetDataChanged ==
    /\ pc = "ready" /\ call.k < MaxAttrCalls
    /\ \E name \in DataNames, v \in DataValues :
         /\ call' = [k |-> call.k + 1, name |-> name, v |-> v]
         /\ ret' = AttrRet("SetDataChanged", SetDataChanged(attrs, name, v))
    /\ attrs' = ret'.after
    /\ pc' = "ready"
    /\ UNCHANGED <<style, builder>>

DoSetStyleChanged ==
    /\ pc = "ready" /\ call.k < MaxAttrCalls
    /\ \E name \in StyleNames, v \in StyleSetValues, tie \in BOOLEAN, arch \in Archs :
         /\ call' = [k |-> call.k + 1, name |-> name, v |-> v]
         /\ ret' = AttrRet("SetStyleChanged", SetStyleChanged(attrs, name, v, tie, arch))
    /\ attrs' = ret'.after
    /\ pc' = IF ret'.panic THEN "panicked" ELSE "ready"
    /\ UNCHANGED <<style, builder>>

NextAttr ==
    \/ DoAttributesSetChanged
    \/ DoSetIDChanged
    \/ DoSetDataChanged
    \/ DoSetStyleChanged

SpecAttr == InitAttr /\ [][NextAttr]_vars

\* C10: when SetChanged, SetIDChanged, SetDataChanged or SetStyleChanged
\* returns an error, the store is what it was before the call, keys and
\* values, and the changed flag is false.
C10_ErrorLeavesStore ==
    (ret.op \in {"SetChanged", "SetIDChanged", "SetDataChanged", "SetStyleChanged"}
        /\ ret.err)
    => attrs = ret.before /\ ~ret.changed

\* SetStyleChanged returned an error on a store that holds attributes: the
\* operand of the arithmetic is no number
C10_Witness ==
    /\ ret.op = "SetStyleChanged" /\ ret.err
    /\ call.name = <<"w", "i", "d", "t", "h">> /\ call.v = <<"+", " ", "a">>
    /\ DOMAIN attrs = {<<"i", "d">>}

(***************************************************************************)
(* TagBuilder (tagbuilder.go)                                              *)
(* A builder operation returns the builder b and panic (the call           *)
(* panicked).                                                              *)
(***************************************************************************)

voidTags ==
    { <<"a", "r", "e", "a">>, <<"b", "a", "s", "e">>, <<"b", "r">>, <<"c", "o", "l">>,
      <<"c", "o", "m", "m", "a", "n", "d">>, <<"e", "m", "b", "e", "d">>, <<"h", "r">>,
      <<"i", "m", "g">>, <<"i", "n", "p", "u", "t">>,
      <<"k", "e", "y", "g", "e", "n">>, <<"l", "i", "n", "k">>, <<"m", "e", "t", "a">>,
      <<"p", "a", "r", "a", "m">>, <<"s", "o", "u", "r", "c", "e">>, <<"t", "r", "a", "c", "k">>,
      <<"w", "b", "r">> }

\* Attributes.Set: SetChanged that panics on an error
Attributes_Set(a, name, v, tie, arch) ==
    With(Attributes_SetChanged(a, name, v, tie, arch), LAMBDA r :
        [a |-> r.a, panic |-> r.panic \/ r.err])

\* mutant of TagBuilder.Tag: the void flag is not taken from voidTags
TagBuilder_Tag_keepsFlag(b, tag) ==
    [b |-> [b EXCEPT !.tag = tag], panic |-> FALSE]

\* TagBuilder.Tag
TagBuilder_Tag(b, tag) ==
    [b |-> [b EXCEPT !.tag = tag, !.isVoid = tag \in voidTags], panic |-> FALSE]

\* TagBuilder.Set
TagBuilder_Set(b, attribute, value, tie, arch) ==
    With(Attributes_Set(b.attributes, attribute, value, tie, arch), LAMBDA r :
        [b |-> [b EXCEPT !.attributes = r.a], panic |-> r.panic])

\* TagBuilder.ID
TagBuilder_ID(b, id, tie, arch) == TagBuilder_Set(b, <<"i", "d">>, id, tie, arch)

\* TagBuilder.Class
TagBuilder_Class(b, class) ==
    [b |-> [b EXCEPT !.attributes = SetClassChanged(b.attributes, class).a],
     panic |-> FALSE]

\* TagBuilder.Link
TagBuilder_Link(b, href, tie, arch) ==
    TagBuilder_Set([b EXCEPT !.tag = <<"a">>], <<"h", "r", "e", "f">>, href, tie, arch)

\* TagBuilder.IsVoid
TagBuilder_IsVoid(b) == [b |-> [b EXCEPT !.isVoid = TRUE], panic |-> FALSE]

\* TagBuilder.InnerHtml
TagBuilder_InnerHtml(b, html) == [b |-> [b EXCEPT !.innerHtml = html], panic |-> FALSE]

\* TagBuilder.InnerText
TagBuilder_InnerText(b, text) ==
    [b |-> [b EXCEPT !.innerHtml = EscapeString(text)], panic |-> FALSE]

\* TagBuilder.String; order is the order in which the attributes are visited
TagBuilder_String(b, order) ==
    IF b.tag = <<>> THEN [out |-> <<>>, panic |-> TRUE]
    ELSE IF b.isVoid
    THEN [out |-> RenderVoidTag(b.tag, b.attributes, order), panic |-> FALSE]
    ELSE [out |-> RenderTag(b.tag, b.attributes, order, b.innerHtml), panic |-> FALSE]

(***************************************************************************)
(* Specification SpecBuilder: a TagBuilder that starts from its zero value *)
(* and receives builder calls and String, next to direct calls of the      *)
(* Render and Write entry points on the same tag names.                    *)
(***************************************************************************)

\* at most this many calls are made
MaxBuilderCalls == 3

\* the tag names: a, br, img and the empty name
BuilderTags == { <<"a">>, <<"b", "r">>, <<"i", "m", "g">>, <<>> }

BuilderAttrs == { EmptyMap, (<<"i", "d">> :> <<"h", "i">>) }

BuilderHtmls == { <<>>, <<"d">> }

InitBuilder ==
    /\ pc = "ready"
    /\ call = [k |-> 0]
    /\ ret = NoRet
    /\ style = EmptyMap
    /\ attrs = EmptyMap
    /\ builder = NoBuilder

\* a builder call was made: r is what it returned
BuilderStep(op, r) ==
    /\ call' = [k |-> call.k + 1]
    /\ ret' = [op |-> op, panic |-> r.panic]
    /\ builder' = r.b
    /\ pc' = IF r.panic THEN "panicked" ELSE "ready"
    /\ UNCHANGED <<style, attrs>>

\* an entry point rendered tag, attr and innerHtml to out
RenderStep(op, tag, attr, order, innerHtml, out, panic) ==
    /\ call' = [k |-> call.k + 1]
    /\ ret' = [op |-> op, tag |-> tag, attr |-> attr, order |-> order,
               innerHtml |-> innerHtml, out |-> out, panic |-> panic]
    /\ pc' = IF panic THEN "panicked" ELSE "ready"
    /\ UNCHANGED <<builder, style, attrs>>

BuilderReady == pc = "ready" /\ call.k < MaxBuilderCalls

DoTag ==
    /\ BuilderReady
    /\ \E tag \in BuilderTags : BuilderStep("Tag", TagBuilder_Tag(builder, tag))

DoSet ==
    /\ BuilderReady
    /\ \E attribute \in {<<"t", "i", "t", "l", "e">>, <<"a", " ", "b">>} :
          BuilderStep("Set", TagBuilder_Set(builder, attribute, <<"x">>, TRUE, "amd64"))

DoID ==
    /\ BuilderReady
    /\ \E id \in {<<"h", "i">>, <<"h", " ", "i">>} :
          BuilderStep("ID", TagBuilder_ID(builder, id, TRUE, "amd64"))

DoClass ==
    /\ BuilderReady
    /\ \E class \in {<<"c">>, <<"+", " ", "d">>} :
          BuilderStep("Class", TagBuilder_Class(builder, class))

DoLink ==
    /\ BuilderReady
    /\ BuilderStep("Link", TagBuilder_Link(builder, <<"u">>, TRUE, "amd64"))

DoIsVoid ==
    /\ BuilderReady
    /\ BuilderStep("IsVoid", TagBuilder_IsVoid(builder))

DoInnerHtml ==
    /\ BuilderReady
    /\ \E html \in BuilderHtmls : BuilderStep("InnerHtml", TagBuilder_InnerHtml(builder, html))

DoInnerText ==
    /\ BuilderReady
    /\ BuilderStep("InnerText", TagBuilder_InnerText(builder, <<"<", "d">>))

DoBuilderString ==
    /\ pc = "ready"
    /\ ret.op # "String"
    /\ \E order \in Orders(DOMAIN builder.attributes) :
          RenderStep("String", builder.tag, builder.attributes, order,
                     builder.innerHtml, TagBuilder_String(builder, order).out,
                     TagBuilder_String(builder, order).panic)

DoRenderTagOnName ==
    /\ BuilderReady
    /\ \E tag \in BuilderTags \ {<<>>}, attr \in BuilderAttrs, html \in BuilderHtmls :
         \E order \in Orders(DOMAIN attr) :
            RenderStep("RenderTag", tag, attr, order, html,
                       RenderTag(tag, attr, order, html), FALSE)

DoRenderTagNoSpaceOnName ==
    /\ BuilderReady
    /\ \E tag \in BuilderTags \ {<<>>}, attr \in BuilderAttrs, html \in BuilderHtmls :
         \E order \in Orders(DOMAIN attr) :
            RenderStep("RenderTagNoSpace", tag, attr, order, html,
                       RenderTagNoSpace(tag, attr, order, html), FALSE)

DoRenderTagFormattedOnName ==
    /\ BuilderReady
    /\ \E tag \in BuilderTags \ {<<>>}, attr \in BuilderAttrs, html \in BuilderHtmls :
            RenderStep("RenderTagFormatted", tag, attr, sortedKeys(attr), html,
                       RenderTagFormatted(tag, attr, html), FALSE)

DoWriteTagOnName ==
    /\ BuilderReady
    /\ \E tag \in BuilderTags \ {<<>>}, attr \in BuilderAttrs, html \in BuilderHtmls :
         \E order \in Orders(DOMAIN attr) :
            RenderStep("WriteTag", tag, attr, order, html,
                       WriteTag(NewBuilder, tag, attr, order, readerOrNil(html)).w.buf,
                       FALSE)

NextBuilder ==
    \/ DoTag
    \/ DoSet
    \/ DoID
    \/ DoClass
    \/ DoLink
    \/ DoIsVoid
    \/ DoInnerHtml
    \/ DoInnerText
    \/ DoBuilderString
    \/ DoRenderTagOnName
    \/ DoRenderTagNoSpaceOnName
    \/ DoRenderTagFormattedOnName
    \/ DoWriteTagOnName

SpecBuilder == InitBuilder /\ [][NextBuilder]_vars

\* the opening tag of what the last call rendered
RenderedOpenTag ==
    OpenTagText([tag |-> ret.tag, attr |-> ret.attr, order |-> ret.order],
                ret.op = "RenderTagFormatted")

RenderOps == {"RenderTag", "RenderTagNoSpace", "RenderTagFormatted", "WriteTag"}

\* C4 as stated: for a tag name of the void list no rendering entry point
\* (RenderTag, RenderTagNoSpace, RenderTagFormatted, WriteTag,
\* TagBuilder.String) emits inner content or a closing tag.
C4_Original ==
    (ret.op \in RenderOps \cup {"String"} /\ ~ret.panic /\ ret.tag \in voidTags)
    => ret.out = RenderedOpenTag

\* C4 as amended: TagBuilder.String, after any sequence of builder calls,
\* emits the opening tag alone for a tag name of the void list; RenderTag,
\* RenderTagNoSpace, RenderTagFormatted and WriteTag do not look at the list
\* and end what they emit with the closing tag, whatever the tag name.
C4_VoidTagSet ==
    /\ (ret.op = "String" /\ ~ret.panic /\ ret.tag \in voidTags)
          => ret.out = RenderedOpenTag
    /\ ret.op \in RenderOps
          => /\ HasPrefix(ret.out, RenderedOpenTag)
             /\ Len(ret.out) >= Len(RenderedOpenTag) + Len(ret.tag) + 3
             /\ SubSeq(ret.out, Len(ret.out) - Len(ret.tag) - 2, Len(ret.out))
                    = <<"<", "/">> \o ret.tag \o <<">">>

\* Tag("br"), InnerHtml("d") and an attribute, then String: <br id="hi">
C4_Witness ==
    /\ ret.op = "String" /\ ~ret.panic
    /\ ret.tag = <<"b", "r">> /\ ret.innerHtml = <<"d">>
    /\ ret.out = <<"<", "b", "r", " ", "i", "d", "=">> \o <<"\"">> \o <<"h", "i">> \o <<"\"", ">">>

(***************************************************************************)
(* Properties of the Attributes store, continued                           *)
(***************************************************************************)

\* the attribute name is written in the encoded text s, as name="..." or as
\* a bare name
Encodes(s, name) ==
    With(<<" ">> \o s \o <<" ">>, LAMBDA t :
        \/ Contains(t, <<" ">> \o name \o <<"=">>)
        \/ Contains(t, <<" ">> \o name \o <<" ">>))

RemoveClassesWithPrefix(class, prefix) ==
    With(Fields(class), LAMBDA classes :
        TrimSpace(Concat([i \in 1..Len(classes) |->
            IF ~HasPrefix(classes[i], prefix) THEN classes[i] \o <<" ">> ELSE <<>>])))

\* Attributes.RemoveClassesWithPrefix
Attributes_RemoveClassesWithPrefix(a, v) ==
    IF Has(a, <<"c", "l", "a", "s", "s">>)
    THEN With(RemoveClassesWithPrefix(Attributes_Get(a, <<"c", "l", "a", "s", "s">>), v), LAMBDA newClass :
            IF Attributes_Get(a, <<"c", "l", "a", "s", "s">>) # newClass
            THEN AttrResult(Attributes_set(a, <<"c", "l", "a", "s", "s">>, newClass).a, TRUE)
            ELSE AttrResult(a, FALSE))
    ELSE AttrResult(a, FALSE)

\* Style.Has
Style_Has(s, property) == property \in DOMAIN s

\* Style.Remove
Style_Remove(s, property) == [k \in DOMAIN s \ {property} |-> s[k]]

\* Attributes.RemoveStyle
RemoveStyle(a, name, tie, arch) ==
    With(StyleMap(a, tie, arch), LAMBDA s :
        IF s.panic THEN AttrPanic(a)
        ELSE IF Style_Has(s.s, name)
        THEN AttrResult(Attributes_set(a, <<"s", "t", "y", "l", "e">>, encode(Style_Remove(s.s,
                name))).a, TRUE)
        ELSE AttrResult(a, FALSE))

(***************************************************************************)
(* Specification SpecStore: the calls of SpecAttr and the other operations *)
(* of the store that report a changed flag.                                *)
(***************************************************************************)

\* the class values: the empty string, x, "x y", "y  x", "+ y", "+ x y",
\* "+ y y", "+ y  x", "- x", "- y z", "+ ", "- "
ClassValues ==
    { <<>>,
      <<"x">>,
      <<"x", " ", "y">>,
      <<"y", " ", " ", "x">>,
      <<"+", " ", "y">>,
      <<"+", " ", "x", " ", "y">>,
      <<"+", " ", "y", " ", "y">>,
      <<"+", " ", "y", " ", " ", "x">>,
      <<"-", " ", "x">>,
      <<"-", " ", "y", " ", "z">>,
      <<"+", " ">>,
      <<"-", " ">> }

\* the attributes that take a list of words, and the words
WordKeys == { <<"c", "l", "a", "s", "s">>, <<"t", "i", "t", "l", "e">> }
WordValues ==
    { <<>>, <<"x">>, <<"y", " ", "x">>, <<"y", " ", "z">>, <<"z", " ", "z">>, FalseValue }

DoSetClassChanged ==
    /\ pc = "ready" /\ call.k < MaxAttrCalls
    /\ \E v \in ClassValues :
         /\ call' = [k |-> call.k + 1, name |-> <<"c", "l", "a", "s", "s">>, v |-> v]
         /\ ret' = AttrRet("SetClassChanged", SetClassChanged(attrs, v))
    /\ attrs' = ret'.after
    /\ pc' = "ready"
    /\ UNCHANGED <<style, builder>>

DoAddValuesChanged ==
    /\ pc = "ready" /\ call.k < MaxAttrCalls
    /\ \E attrKey \in WordKeys, values \in WordValues :
         /\ call' = [k |-> call.k + 1, name |-> attrKey, v |-> values]
         /\ ret' = AttrRet("AddValuesChanged", AddValuesChanged(attrs, attrKey, values))
    /\ attrs' = ret'.after
    /\ pc' = "ready"
    /\ UNCHANGED <<style, builder>>

DoRemoveClass ==
    /\ pc = "ready" /\ call.k < MaxAttrCalls
    /\ \E v \in WordValues :
         /\ call' = [k |-> call.k + 1, name |-> <<"c", "l", "a", "s", "s">>, v |-> v]
         /\ ret' = AttrRet("RemoveClass", RemoveClass(attrs, v))
    /\ attrs' = ret'.after
    /\ pc' = "ready"
    /\ UNCHANGED <<style, builder>>

DoRemoveClassesWithPrefix ==
    /\ pc = "ready" /\ call.k < MaxAttrCalls
    /\ \E v \in WordValues :
         /\ call' = [k |-> call.k + 1, name |-> <<"c", "l", "a", "s", "s">>, v |-> v]
         /\ ret' = AttrRet("RemoveClassesWithPrefix",
                           Attributes_RemoveClassesWithPrefix(attrs, v))
    /\ attrs' = ret'.after
    /\ pc' = "ready"
    /\ UNCHANGED <<style, builder>>

DoRemoveStyle ==
    /\ pc = "ready" /\ call.k < MaxAttrCalls
    /\ \E name \in StyleNames :
         /\ call' = [k |-> call.k + 1, name |-> name, v |-> <<>>]
         /\ ret' = AttrRet("RemoveStyle", RemoveStyle(attrs, name, TRUE, "amd64"))
    /\ attrs' = ret'.after
    /\ pc' = IF ret'.panic THEN "panicked" ELSE "ready"
    /\ UNCHANGED <<style, builder>>

DoRemoveAttribute ==
    /\ pc = "ready" /\ call.k < MaxAttrCalls
    /\ \E name \in AttrNames :
         /\ call' = [k |-> call.k + 1, name |-> name, v |-> <<>>]
         /\ ret' = AttrRet("RemoveAttribute", RemoveAttribute(attrs, name))
    /\ attrs' = ret'.after
    /\ pc' = "ready"
    /\ UNCHANGED <<style, builder>>

NextStore ==
    \/ NextAttr
    \/ DoSetClassChanged
    \/ DoAddValuesChanged
    \/ DoRemoveClass
    \/ DoRemoveClassesWithPrefix
    \/ DoRemoveStyle
    \/ DoRemoveAttribute

SpecStore == InitAttr /\ [][NextStore]_vars

\* the logical value of a store: its attributes, the style attribute taken
\* as the property map it decodes to
LogicalStore(a) ==
    [k \in DOMAIN a |-> IF k = <<"s", "t", "y", "l", "e">> THEN StyleMap(a, TRUE, "amd64").s ELSE a[k]]

\* the operations that report a changed flag
ChangedOps ==
    { "SetChanged", "SetIDChanged", "SetClassChanged", "SetDataChanged",
      "SetStyleChanged", "AddValuesChanged", "RemoveClass",
      "RemoveClassesWithPrefix", "RemoveStyle", "RemoveAttribute" }

\* C12: an operation of the store that reports a changed flag reports true
\* exactly when the logical value of the store after the call differs from
\* the one before, the style attribute compared by its decoded property map.
C12_ChangedFlag ==
    (ret.op \in ChangedOps /\ ~ret.panic)
    => (ret.changed <=> LogicalStore(ret.before) # LogicalStore(attrs))

\* the half of C12 that holds: a call that reports no change has left the
\* logical value of the store as it was
UnchangedIsUnchanged ==
    (ret.op \in ChangedOps /\ ~ret.panic /\ ~ret.changed)
    => LogicalStore(ret.before) = LogicalStore(attrs)

\* a style attribute that decodes without error to the map it encodes
StyleDecodes(a) ==
    Has(a, <<"s", "t", "y", "l", "e">>)
    => With(StyleMap(a, TRUE, "amd64"), LAMBDA s :
            ~s.err /\ ~s.panic /\ encode(s.s) = StyleString(a))

\* C12 holds of the calls whose stores, before and after, hold a style
\* attribute that decodes to the map it was encoded from
ChangedFlagWhenStyleDecodes ==
    (ret.op \in ChangedOps /\ ~ret.panic
        /\ StyleDecodes(ret.before) /\ StyleDecodes(attrs))
    => (ret.changed <=> LogicalStore(ret.before) # LogicalStore(attrs))

\* the example of C12: a style text with the properties of the stored one,
\* in another order and with other whitespace, reports no change
SameStyleOtherOrder ==
    /\ ret.op = "SetChanged" /\ call.name = <<"s", "t", "y", "l", "e">>
    /\ call.v = <<"w", "i", "d", "t", "h", ":", "4", ";", " ", "t", "o", "p", ":",
            "4">> /\ StyleString(ret.before) = <<"t", "o", "p", ":", "4", "p", "x", ";", "w",
            "i", "d", "t", "h", ":", "4", "p", "x">>
    /\ ~ret.changed /\ ~ret.err /\ attrs = ret.before

(***************************************************************************)
(* Properties of the Style, continued                                      *)
(***************************************************************************)

\* C13: Style.SetChanged and Style.SetString return changed = true exactly
\* when the property map after the call differs from the one before.
C13_StyleChangedFlag ==
    (ret.op \in {"SetChanged", "SetString"} /\ ~ret.panic)
    => (ret.changed <=> style # ret.before)

\* what holds of C13: the flag of SetChanged is exact
SetChangedFlagExact ==
    (ret.op = "SetChanged" /\ ~ret.panic)
    => (ret.changed <=> style # ret.before)

\* what SetString reports: that a property of the text was set, whatever
\* the Style held before
SetStringFlagIsPropertySet ==
    (ret.op = "SetString" /\ ~ret.panic)
    => (ret.changed <=> style # EmptyMap)

\* the second example of C13 as the code has it: a SetString whose text
\* decodes to the properties already held reports a change
SetStringSameReportsChange ==
    /\ ret.op = "SetString" /\ ~ret.err /\ ~ret.panic
    /\ style = ret.before /\ style # EmptyMap /\ ret.changed

\* C14: a Style.SetString that returns an error returns changed = false.
C14_NoChangeOnError ==
    (ret.op = "SetString" /\ ret.err) => ~ret.changed

\* what holds of C14: the flag is false when the error is in the first
\* segment that the text has, no property being set before it
NoChangeWhenNothingSet ==
    (ret.op = "SetString" /\ ret.err /\ style = EmptyMap) => ~ret.changed

(***************************************************************************)
(* Attributes: Merge, Override and the attribute strings (attributes.go),  *)
(* MergeStyleStrings (style.go). The operations that return the store for  *)
(* chaining give the store a and panic (the call panicked).                *)
(***************************************************************************)

\* Style.Merge: the properties of m win
Style_Merge(s, m) == m @@ s

\* MergeStyleStrings: the errors of the two parses are dropped
MergeStyleStrings(s1, s2, tie, arch) ==
    With(SetString(EmptyMap, s1, tie, arch), LAMBDA style1 :
    With(SetString(EmptyMap, s2, tie, arch), LAMBDA style2 :
        [s |-> encode(Style_Merge(style1.s, style2.s)),
         panic |-> style1.panic \/ style2.panic]))

\* Attributes.Override
Override(a, overrides) == overrides @@ a

\* the loop of Attributes.Merge: the keys of aIn in the order range visits
\* them, from the i-th on
RECURSIVE mergeKeys(_, _, _, _, _, _)
mergeKeys(a, aIn, order, i, tie, arch) ==
    IF i > Len(order) THEN [a |-> a, panic |-> FALSE]
    ELSE With(order[i], LAMBDA k :
         With(IF k = <<"s", "t", "y", "l", "e">> /\ k \in DOMAIN a
              THEN MergeStyleStrings(a[k], aIn[k], tie, arch)
              ELSE IF k = <<"c", "l", "a", "s", "s">> /\ k \in DOMAIN a
              THEN [s |-> MergeWords(a[k], aIn[k]), panic |-> FALSE]
              ELSE [s |-> aIn[k], panic |-> FALSE], LAMBDA v :
            IF v.panic THEN [a |-> a, panic |-> TRUE]
            ELSE With((k :> v.s) @@ a, LAMBDA a2 :
                    mergeKeys(a2, aIn, order, i + 1, tie, arch))))

\* Attributes.Merge
Merge(a, aIn, order, tie, arch) == mergeKeys(a, aIn, order, 1, tie, arch)

\* the end of the match of templateMatcher, \w+=".*?", that starts at
\* offset p of s, or -1: the run of word characters from p, then ="
\* and the text up to the next quote, which holds no newline
pairEnd(s, p) ==
    IF s[p + 1] \notin WordChar THEN 0 - 1
    ELSE With(CHOOSE q \in p..Len(s) :
                /\ (q = Len(s) \/ s[q + 1] \notin WordChar)
                /\ \A j \in p..(q - 1) : s[j + 1] \in WordChar, LAMBDA q :
            IF q + 2 > Len(s) \/ s[q + 1] # "=" \/ s[q + 2] # "\"" THEN 0 - 1
            ELSE With({r \in (q + 2)..(Len(s) - 1) : s[r + 1] = "\""}, LAMBDA R :
                    IF R = {} THEN 0 - 1
                    ELSE With(CHOOSE r \in R : \A o \in R : r <= o, LAMBDA r :
                            IF \E j \in (q + 2)..(r - 1) : s[j + 1] = "\n"
                            THEN 0 - 1 ELSE r + 1)))

\* templateMatcher.FindAllString(s, -1), from offset from on
RECURSIVE FindAllString(_, _)
FindAllString(s, from) ==
    With({p \in from..(Len(s) - 1) : pairEnd(s, p) >= 0}, LAMBDA P :
        IF P = {} THEN <<>>
        ELSE With(CHOOSE p \in P : \A o \in P : p <= o, LAMBDA p :
             With(pairEnd(s, p), LAMBDA e :
                <<Slice(s, p, e)>> \o FindAllString(s, e))))

\* the loop of getAttributesFromTemplate over the pairs, from the i-th on:
\* kv[1] without its first and last character is set under kv[0]
RECURSIVE setPairs(_, _, _, _, _)
setPairs(a, pairs, i, tie, arch) ==
    IF i > Len(pairs) THEN [a |-> a, panic |-> FALSE]
    ELSE With(Split(pairs[i], "="), LAMBDA kv :
            IF Len(kv[2]) < 2 THEN [a |-> a, panic |-> TRUE]
            ELSE With(Attributes_Set(a, kv[1], Slice(kv[2], 1, Len(kv[2]) - 1),
                                     tie, arch), LAMBDA r :
                    IF r.panic THEN r
                    ELSE With(r.a, LAMBDA a2 : setPairs(a2, pairs, i + 1, tie, arch))))

\* getAttributesFromTemplate; nil is the empty map
getAttributesFromTemplate(s, tie, arch) ==
    With(FindAllString(s, 0), LAMBDA pairs : setPairs(EmptyMap, pairs, 1, tie, arch))

\* Attributes.OverrideString
OverrideString(a, s, tie, arch) ==
    IF s = <<>> THEN [a |-> a, panic |-> FALSE]
    ELSE With(getAttributesFromTemplate(s, tie, arch), LAMBDA a2 :
            IF a2.panic THEN [a |-> a, panic |-> TRUE]
            ELSE [a |-> Override(a, a2.a), panic |-> FALSE])

\* Attributes.MergeString
MergeString(a, s, order, tie, arch) ==
    IF s = <<>> THEN [a |-> a, panic |-> FALSE]
    ELSE With(getAttributesFromTemplate(s, tie, arch), LAMBDA a2 :
            IF a2.panic THEN [a |-> a, panic |-> TRUE]
            ELSE Merge(a, a2.a, order, tie, arch))

\* Attributes.SetStyles
SetStyles(a, s, tie, arch) ==
    With(StyleMap(a, tie, arch), LAMBDA styles :
        IF styles.panic THEN [a |-> a, panic |-> TRUE]
        ELSE [a |-> Attributes_set(a, <<"s", "t", "y", "l", "e">>, encode(Style_Merge(styles.s, s))).a,
              panic |-> FALSE])

\* Attributes.SetStylesTo: SetString works on the map of the current
\* styles, which it empties first
SetStylesTo(a, s, tie, arch) ==
    With(StyleMap(a, tie, arch), LAMBDA styles :
        IF styles.panic THEN [a |-> a, panic |-> TRUE]
        ELSE With(SetString(styles.s, s, tie, arch), LAMBDA r :
            IF r.panic THEN [a |-> a, panic |-> TRUE]
            ELSE IF r.err THEN [a |-> a, panic |-> FALSE]
            ELSE [a |-> Attributes_set(a, <<"s", "t", "y", "l", "e">>, encode(r.s)).a, panic |-> FALSE]))

(***************************************************************************)
(* Specification SpecMerge: the calls of SpecAttr and the operations that  *)
(* merge or override attributes and styles. Set, SetID and SetStyle are    *)
(* SetChanged, SetIDChanged and SetStyleChanged with a panic for the       *)
(* error.                                                                  *)
(***************************************************************************)

\* the Attributes given to Merge and Override: the empty map, {id: x},
\* {id: "x y"}, {class: y, style: top:4px}, {style: "width: 4"},
\* {class: "x y", style: "width: 4"}, {class: "y y"}, {title: FalseValue}
MergeArgs ==
    { EmptyMap, (<<"i", "d">> :> <<"x">>), (<<"i", "d">> :> <<"x", " ", "y">>),
      (<<"c", "l", "a", "s", "s">> :> <<"y">>) @@ (<<"s", "t", "y", "l", "e">> :> <<"t", "o", "p", ":", "4", "p", "x">>),
      (<<"s", "t", "y", "l", "e">> :> <<"w", "i", "d", "t", "h", ":", " ", "4">>),
      (<<"c", "l", "a", "s", "s">> :> <<"x", " ", "y">>) @@ (<<"s", "t", "y", "l", "e">> :> <<"w", "i", "d", "t", "h", ":", " ", "4">>),
      (<<"c", "l", "a", "s", "s">> :> <<"y", " ", "y">>),
      (<<"t", "i", "t", "l", "e">> :> FalseValue) }

\* the attribute strings: the empty string, x, id="x", id="x y", id="",
\* class="y" style="top: 4", id="a=b", a="="
TemplateTexts ==
    { <<>>, <<"x">>,
      <<"i", "d", "=", "\"", "x", "\"">>,
      <<"i", "d", "=", "\"", "x", " ", "y", "\"">>,
      <<"i", "d", "=", "\"", "\"">>,
      <<"c", "l", "a", "s", "s", "=", "\"", "y", "\"", " ", "s", "t", "y", "l", "e", "=", "\"",
              "t", "o", "p", ":", " ", "4", "\"">>,
      <<"i", "d", "=", "\"", "a", "=", "b", "\"">>,
      <<"a", "=", "\"", "=", "\"">>,
      <<"q", " ", "t", "i", "t", "l", "e", "=", "\"", "a", " ", "b", "\"">> }

\* the Styles given to SetStyles: no property, {width: 4px}, {top: 0, width: 8px}
StyleArgs ==
    { EmptyMap, (<<"w", "i", "d", "t", "h">> :> <<"4", "p", "x">>), (<<"t", "o",
            "p">> :> <<"0">>) @@ (<<"w", "i", "d", "t", "h">> :> <<"8", "p", "x">>) }

\* the result of an operation that returns the store for chaining
Chained(r) == [a |-> r.a, changed |-> FALSE, err |-> FALSE, panic |-> r.panic]

DoMerge ==
    /\ pc = "ready" /\ call.k < MaxAttrCalls
    /\ \E aIn \in MergeArgs : \E order \in Orders(DOMAIN aIn) :
         /\ call' = [k |-> call.k + 1, name |-> <<>>, v |-> aIn]
         /\ ret' = AttrRet("Merge", Chained(Merge(attrs, aIn, order, TRUE, "amd64")))
    /\ attrs' = ret'.after
    /\ pc' = IF ret'.panic THEN "panicked" ELSE "ready"
    /\ UNCHANGED <<style, builder>>

DoOverride ==
    /\ pc = "ready" /\ call.k < MaxAttrCalls
    /\ \E overrides \in MergeArgs :
         /\ call' = [k |-> call.k + 1, name |-> <<>>, v |-> overrides]
         /\ ret' = AttrRet("Override",
                           Chained([a |-> Override(attrs, overrides), panic |-> FALSE]))
    /\ attrs' = ret'.after
    /\ pc' = "ready"
    /\ UNCHANGED <<style, builder>>

DoMergeString ==
    /\ pc = "ready" /\ call.k < MaxAttrCalls
    /\ \E s \in TemplateTexts :
         \E order \in Orders(DOMAIN getAttributesFromTemplate(s, TRUE, "amd64").a) :
         /\ call' = [k |-> call.k + 1, name |-> <<>>, v |-> s]
         /\ ret' = AttrRet("MergeString",
                           Chained(MergeString(attrs, s, order, TRUE, "amd64")))
    /\ attrs' = ret'.after
    /\ pc' = IF ret'.panic THEN "panicked" ELSE "ready"
    /\ UNCHANGED <<style, builder>>

DoOverrideString ==
    /\ pc = "ready" /\ call.k < MaxAttrCalls
    /\ \E s \in TemplateTexts :
         /\ call' = [k |-> call.k + 1, name |-> <<>>, v |-> s]
         /\ ret' = AttrRet("OverrideString",
                           Chained(OverrideString(attrs, s, TRUE, "amd64")))
    /\ attrs' = ret'.after
    /\ pc' = IF ret'.panic THEN "panicked" ELSE "ready"
    /\ UNCHANGED <<style, builder>>

DoSetStyles ==
    /\ pc = "ready" /\ call.k < MaxAttrCalls
    /\ \E s \in StyleArgs :
         /\ call' = [k |-> call.k + 1, name |-> <<>>, v |-> s]
         /\ ret' = AttrRet("SetStyles", Chained(SetStyles(attrs, s, TRUE, "amd64")))
    /\ attrs' = ret'.after
    /\ pc' = IF ret'.panic THEN "panicked" ELSE "ready"
    /\ UNCHANGED <<style, builder>>

DoSetStylesTo ==
    /\ pc = "ready" /\ call.k < MaxAttrCalls
    /\ \E s \in AttrValues :
         /\ call' = [k |-> call.k + 1, name |-> <<>>, v |-> s]
         /\ ret' = AttrRet("SetStylesTo", Chained(SetStylesTo(attrs, s, TRUE, "amd64")))
    /\ attrs' = ret'.after
    /\ pc' = IF ret'.panic THEN "panicked" ELSE "ready"
    /\ UNCHANGED <<style, builder>>

NextMerge ==
    \/ NextAttr
    \/ DoMerge
    \/ DoOverride
    \/ DoMergeString
    \/ DoOverrideString
    \/ DoSetStyles
    \/ DoSetStylesTo
    \/ DoRemoveStyle

SpecMerge == InitAttr /\ [][NextMerge]_vars

\* C15: in every store reached from the empty store the id attribute, when
\* there is one, is not the empty string and holds no whitespace character.
C15_IdInvariant ==
    Has(attrs, <<"i", "d">>)
    => /\ attrs[<<"i", "d">>] # <<>>
       /\ ~ContainsAny(attrs[<<"i", "d">>], Space)

\* what holds of C15: the id that SetChanged("id", ..) or SetIDChanged has
\* just set is not the empty string and holds no space character
IdSetHasNoSpace ==
    (ret.op \in {"SetChanged", "SetIDChanged"} /\ call.name = <<"i", "d">>
        /\ ~ret.err /\ Has(attrs, <<"i", "d">>))
    => /\ attrs[<<"i", "d">>] # <<>>
       /\ ~ContainsAny(attrs[<<"i", "d">>], {" "})

\* C16: in every store reached from the empty store the style attribute,
\* when there is one, is the canonical encoding of the property map it
\* decodes to.
C16_StyleCanonical ==
    Has(attrs, <<"s", "t", "y", "l", "e">>)
    => With(StyleMap(attrs, TRUE, "amd64"), LAMBDA s :
            ~s.panic /\ encode(s.s) = StyleString(attrs))

(***************************************************************************)
(* The codec of data-* names (the file of ToDataAttr and ToDataKey)        *)
(***************************************************************************)

\* strings.ToUpper of one character
ToUpper(c) == IF c \in Lower THEN Ascii[Ord[c] - Ord["a"] + Ord["A"]] ELSE c

\* strings.Title: the letters that follow a separator, or start s, in upper
\* case; letters, digits and the underscore are no separators
Title(s) ==
    [i \in 1..Len(s) |->
        IF i = 1 \/ s[i - 1] \notin WordChar THEN ToUpper(s[i]) ELSE s[i]]

\* the loop of ToDataKey over the pieces, from the i-th on
RECURSIVE keyPieces(_, _, _, _)
keyPieces(s, pieces, i, ret_) ==
    IF i > Len(pieces) THEN [s |-> ret_, err |-> FALSE]
    ELSE IF Len(pieces[i]) = 1 THEN [s |-> s, err |-> TRUE]
    ELSE With(ret_ \o (IF i # 1 THEN Title(pieces[i]) ELSE pieces[i]), LAMBDA r2 :
            keyPieces(s, pieces, i + 1, r2))

\* ToDataKey: kebab-case to camelCase; an error when [A-Z]|[^a-z0-9-] matches
ToDataKey(s) ==
    IF \E i \in 1..Len(s) : s[i] \in Upper \/ s[i] \notin (Lower \cup Digit \cup {"-"})
    THEN [s |-> s, err |-> TRUE]
    ELSE With(Split(s, "-"), LAMBDA pieces : keyPieces(s, pieces, 1, <<>>))

(***************************************************************************)
(* Specification SpecCodec: ToDataAttr or ToDataKey is applied to a name,  *)
(* and the other function to the result.                                   *)
(***************************************************************************)

\* the names have at most this many characters
MaxNameLen == 4

NameChars == {"a", "b", "B", "1", "-", "_"}

\* the names of n characters
RECURSIVE NamesOfLen(_)
NamesOfLen(n) ==
    IF n = 0 THEN {<<>>}
    ELSE With(NamesOfLen(n - 1), LAMBDA shorter :
            {Append(t, c) : t \in shorter, c \in NameChars})

\* the names of the tests: thisANDthat, "this and that", a-b-c
TestNames == { <<"t", "h", "i", "s", "A", "N", "D", "t", "h", "a", "t">>, <<"t", "h", "i", "s",
        " ", "a", "n", "d", " ", "t", "h", "a", "t">>, <<"a", "-", "b", "-", "c">> }

CodecNames == UNION {NamesOfLen(n) : n \in 0..MaxNameLen} \cup TestNames

InitCodec ==
    /\ pc = "start"
    /\ call \in {[name |-> n] : n \in CodecNames}
    /\ ret = NoRet
    /\ style = EmptyMap
    /\ attrs = EmptyMap
    /\ builder = NoBuilder

\* the result r of the function op, and what the other function back makes
\* of it
CodecRet(op, r, back) ==
    [op |-> op, s |-> r.s, err |-> r.err, back |-> back]

DoToDataAttr ==
    /\ pc = "start"
    /\ ret' = With(ToDataAttr(call.name), LAMBDA r :
                CodecRet("ToDataAttr", r, ToDataKey(r.s)))
    /\ pc' = "done"
    /\ UNCHANGED <<call, style, attrs, builder>>

DoToDataKey ==
    /\ pc = "start"
    /\ ret' = With(ToDataKey(call.name), LAMBDA r :
                CodecRet("ToDataKey", r, ToDataAttr(r.s)))
    /\ pc' = "done"
    /\ UNCHANGED <<call, style, attrs, builder>>

NextCodec ==
    \/ DoToDataAttr
    \/ DoToDataKey

SpecCodec == InitCodec /\ [][NextCodec]_vars

(***************************************************************************)
(* Properties of the data-* names                                          *)
(***************************************************************************)

\* the call stores a data attribute: SetDataChanged, or SetChanged on a name
\* that starts with data- and a value that is not the removal sentinel
IsDataCall ==
    \/ ret.op = "SetDataChanged"
    \/ /\ ret.op = "SetChanged" /\ ~Contains(call.name, <<" ">>)
       /\ HasPrefix(call.name, <<"d", "a", "t", "a", "-">>) /\ call.v # FalseValue

\* the camelCase name that the call was given
DataCamel ==
    IF ret.op = "SetDataChanged" THEN call.name ELSE Slice(call.name, 5, Len(call.name))

\* C17: a call that stores a data attribute stores it under data-<suffix>
\* with ToDataKey(suffix) the name that was given and ToDataAttr of that
\* name the suffix again; a call that returns an error stores nothing.
C17_DataKeyRoundTrip ==
    IsDataCall
    => IF ret.err THEN attrs = ret.before
       ELSE With(ToDataAttr(DataCamel).s, LAMBDA suffix :
                /\ Has(attrs, <<"d", "a", "t", "a", "-">> \o suffix)
                /\ ToDataKey(suffix) = [s |-> DataCamel, err |-> FALSE]
                /\ ToDataAttr(ToDataKey(suffix).s) = [s |-> suffix, err |-> FALSE])

\* what holds of C17: the key is data- and ToDataAttr of the name, an error
\* stores nothing, and the suffix gives the name back whenever ToDataKey
\* accepts it
DataKeyIsToDataAttr ==
    IsDataCall
    => IF ret.err THEN attrs = ret.before
       ELSE With(ToDataAttr(DataCamel).s, LAMBDA suffix :
                /\ Has(attrs, <<"d", "a", "t", "a", "-">> \o suffix)
                /\ attrs[<<"d", "a", "t", "a", "-">> \o suffix] = call.v
                /\ ToDataKey(suffix).err \/ ToDataKey(suffix).s = DataCamel)

\* C18: a name that ToDataAttr accepts is given back by ToDataKey from the
\* result, without error, and a name that ToDataKey accepts is given back
\* by ToDataAttr from the result, without error; a rejected name is
\* returned as it is, with the error.
C18_CodecBijection ==
    /\ (ret.op \in {"ToDataAttr", "ToDataKey"} /\ ~ret.err)
       => ret.back = [s |-> call.name, err |-> FALSE]
    /\ (ret.op \in {"ToDataAttr", "ToDataKey"} /\ ret.err) => ret.s = call.name

\* what holds of C18: whenever both functions accept, ToDataKey undoes
\* ToDataAttr
KeyUndoesAttrWhenAccepted ==
    (ret.op = "ToDataAttr" /\ ~ret.err /\ ~ret.back.err) => ret.back.s = call.name

\* the segments of the name between its hyphens
Segments == Split(call.name, "-")

\* the cases in which C19 has ToDataKey return an error
ClaimedKeyError ==
    \/ \E i \in 1..Len(call.name) : call.name[i] \in Upper
    \/ \E i \in 1..Len(call.name) : call.name[i] \notin (Lower \cup Digit \cup {"-"})
    \/ \E i \in 1..Len(Segments) : Len(Segments[i]) = 1
    \/ Len(Segments) > 1 /\ \E i \in 1..Len(Segments) : Segments[i] = <<>>

\* the name without its hyphens, the first letter of every segment after
\* the first in upper case
ClaimedKey ==
    Concat([i \in 1..Len(Segments) |->
        IF i = 1 \/ Segments[i] = <<>> THEN Segments[i]
        ELSE <<ToUpper(Segments[i][1])>> \o Tail(Segments[i])])

\* C19: ToDataKey returns an error for a name with an uppercase letter, a
\* character outside [a-z0-9-], a segment of one character or an empty
\* segment next to a hyphen; for every other name it returns the name
\* without its hyphens, every segment after the first capitalized.
C19_KeyErrors ==
    ret.op = "ToDataKey"
    => /\ ret.err <=> ClaimedKeyError
       /\ ~ret.err => ret.s = ClaimedKey

\* what holds of C19: the claim with the empty segments left out of the
\* errors
KeyErrorsButEmptySegments ==
    ret.op = "ToDataKey"
    => /\ ret.err <=> \/ \E i \in 1..Len(call.name) :
                             call.name[i] \notin (Lower \cup Digit \cup {"-"})
                      \/ \E i \in 1..Len(Segments) : Len(Segments[i]) = 1
       /\ ~ret.err => ret.s = ClaimedKey

(***************************************************************************)
(* Properties of the class attribute                                       *)
(***************************************************************************)

\* the call sets the class attribute through the dispatch of SetClassChanged
IsClassCall ==
    \/ ret.op = "SetClassChanged"
    \/ ret.op = "SetChanged" /\ call.name = <<"c", "l", "a", "s", "s">> /\ call.v # FalseValue

\* the words of the sequence N at the indexes of I, in their order
WordsAt(N, I) ==
    [k \in 1..Cardinality(I) |->
        N[CHOOSE i \in I : Cardinality({j \in I : j < i}) = k - 1]]

\* the words of the class attribute of the store a
ClassWords(a) == Fields(Attributes_Get(a, <<"c", "l", "a", "s", "s">>))

\* the words of the value of the call after its two-character prefix
RemainderWords == Fields(Slice(call.v, 2, Len(call.v)))

\* the words of N that are not in B, each one once
FreshWords(B, N) ==
    WordsAt(N, {i \in 1..Len(N) :
                    /\ \A j \in 1..Len(B) : B[j] # N[i]
                    /\ \A j \in 1..(i - 1) : N[j] # N[i]})

\* the words of B that are not in N
KeptWords(B, N) ==
    WordsAt(B, {i \in 1..Len(B) : \A j \in 1..Len(N) : N[j] # B[i]})

\* what C20 has a class call do with the value v
ClassDispatchAsClaimed ==
    /\ ~ret.err /\ ~ret.panic
    /\ \A k \in (DOMAIN attrs \cup DOMAIN ret.before) \ {<<"c", "l", "a", "s", "s">>} :
          k \in DOMAIN attrs /\ k \in DOMAIN ret.before /\ attrs[k] = ret.before[k]
    /\ IF call.v = <<>> THEN ~Has(attrs, <<"c", "l", "a", "s", "s">>)
       ELSE IF HasPrefix(call.v, <<"+", " ">>)
       THEN /\ ClassWords(attrs)
                 = ClassWords(ret.before) \o FreshWords(ClassWords(ret.before), RemainderWords)
            /\ SetClassChanged(attrs, call.v) = AttrResult(attrs, FALSE)
       ELSE IF HasPrefix(call.v, <<"-", " ">>)
       THEN ClassWords(attrs) = KeptWords(ClassWords(ret.before), RemainderWords)
       ELSE Has(attrs, <<"c", "l", "a", "s", "s">>) /\ attrs[<<"c", "l", "a", "s", "s">>] = call.v

\* C20: SetClassChanged(v) and SetChanged("class", v) remove the class
\* attribute for the empty v; for "+ " and a remainder they append the words
\* of the remainder that are not present, the present words staying in
\* their order, and the same call made again changes nothing and reports
\* changed = false; for "- " and a remainder they remove the words of the
\* remainder, the other words staying in their order; every other v
\* replaces the class value as it is.
C20_ClassDispatch == IsClassCall => ClassDispatchAsClaimed

\* a remainder of words with one space between two and no word twice
PlainRemainder ==
    /\ Join(RemainderWords, <<" ">>) = Slice(call.v, 2, Len(call.v))
    /\ \A i, j \in 1..Len(RemainderWords) :
          RemainderWords[i] = RemainderWords[j] => i = j

\* what holds of C20: the claim for every value but a "+ " value whose
\* remainder has a word twice or other whitespace than one space between
\* two words
ClassDispatchOnPlainLists ==
    (IsClassCall /\ (HasPrefix(call.v, <<"+", " ">>) => PlainRemainder))
    => ClassDispatchAsClaimed

(***************************************************************************)
(* Properties of Merge and Override                                        *)
(***************************************************************************)

\* the property map that the text decodes to
Decoded(text) == SetString(EmptyMap, text, TRUE, "amd64").s

\* what C21 has Merge do with the key k of the map m it was given
MergedAsClaimed(m, k) ==
    IF k = <<"s", "t", "y", "l", "e">>
    THEN Decoded(attrs[k]) = Decoded(m[k]) @@ Decoded(Attributes_Get(ret.before, k))
    ELSE IF k = <<"c", "l", "a", "s", "s">>
    THEN Fields(attrs[k])
            = ClassWords(ret.before) \o FreshWords(ClassWords(ret.before), Fields(m[k]))
    ELSE attrs[k] = m[k]

\* C21: Override(m) sets every key of m to the value m has; Merge(m) does
\* the same but for style, which decodes to the properties of both styles
\* with those of m winning, and class, which holds the words of the
\* receiver in their order followed by the words of m that are not present;
\* both leave the keys that m does not name as they were.
C21_MergeVersusOverride ==
    (ret.op \in {"Merge", "Override"} /\ ~ret.panic)
    => /\ DOMAIN attrs = DOMAIN ret.before \cup DOMAIN call.v
       /\ \A k \in DOMAIN ret.before \ DOMAIN call.v : attrs[k] = ret.before[k]
       /\ \A k \in DOMAIN call.v :
            IF ret.op = "Override" THEN attrs[k] = call.v[k]
            ELSE MergedAsClaimed(call.v, k)

\* the words of the class that Merge was given are distinct
PlainClassArg ==
    <<"c", "l", "a", "s", "s">> \in DOMAIN call.v
    => \A i, j \in 1..Len(Fields(call.v[<<"c", "l", "a", "s", "s">>])) :
          Fields(call.v[<<"c", "l", "a", "s", "s">>])[i] = Fields(call.v[<<"c", "l", "a", "s", "s">>])[j] => i = j

\* what holds of C21: the claim for Override, and for Merge when the class
\* it is given has no word twice
MergeOfPlainClass ==
    (ret.op \in {"Merge", "Override"} /\ ~ret.panic
        /\ (ret.op = "Merge" => PlainClassArg))
    => /\ DOMAIN attrs = DOMAIN ret.before \cup DOMAIN call.v
       /\ \A k \in DOMAIN ret.before \ DOMAIN call.v : attrs[k] = ret.before[k]
       /\ \A k \in DOMAIN call.v :
            IF ret.op = "Override" THEN attrs[k] = call.v[k]
            ELSE MergedAsClaimed(call.v, k)

\* Merge has merged a class and a style into a store that held both
MergedClassAndStyle ==
    /\ ret.op = "Merge" /\ ~ret.panic
    /\ {<<"c", "l", "a", "s", "s">>, <<"s", "t", "y", "l", "e">>} \subseteq DOMAIN call.v
    /\ {<<"c", "l", "a", "s", "s">>, <<"s", "t", "y", "l", "e">>} \subseteq DOMAIN ret.before
    /\ attrs # ret.before

(***************************************************************************)
(* Specification SpecSorted: a store is encoded with its keys sorted.      *)
(***************************************************************************)

\* the insertion of the key k into the sorted keys, as the insertion sort
\* of sort.Slice moves it: to the left while it is less than its neighbour
RECURSIVE sortInsert(_, _)
sortInsert(sorted, k) ==
    IF sorted = <<>> \/ ~keyLess(k, sorted[Len(sorted)]) THEN Append(sorted, k)
    ELSE With(sortInsert(SubSeq(sorted, 1, Len(sorted) - 1), k), LAMBDA front :
            Append(front, sorted[Len(sorted)]))

\* sort.Slice on the keys in the order in which range has visited the map
RECURSIVE sortSlice(_)
sortSlice(keys) ==
    IF keys = <<>> THEN <<>>
    ELSE With(sortSlice(SubSeq(keys, 1, Len(keys) - 1)), LAMBDA front :
            sortInsert(front, keys[Len(keys)]))

\* the stores have at most this many attributes
MaxSortedKeys == 3

\* the special keys in the order of attrSpecialSort
SpecialKeys ==
    << <<"i", "d">>, <<"c", "l", "a", "s", "s">>, <<"s", "t", "y", "l", "e">>, <<"n", "a", "m", "e">>, <<"v", "a", "l", "u", "e">>, <<"s", "r", "c">>, <<"a", "l", "t">>, <<"w", "i", "d", "t", "h">>, <<"h", "e", "i", "g", "h", "t">> >>

\* other keys: a, title
OtherKeys == { <<"a">>, <<"t", "i", "t", "l", "e">> }

\* the values: the empty string and a<"b
SortedValues == { <<>>, <<"a", "<", "\"", "b">> }

SortedKeySets ==
    { K \in SUBSET ({SpecialKeys[i] : i \in 1..Len(SpecialKeys)} \cup OtherKeys) :
        Cardinality(K) <= MaxSortedKeys }

InitSorted ==
    /\ pc = "start"
    /\ call = [k |-> 0]
    /\ ret = NoRet
    /\ style = EmptyMap
    /\ attrs \in UNION {[K -> SortedValues] : K \in SortedKeySets}
    /\ builder = NoBuilder

\* SortedString, the map being visited in the order order by sortedKeys
DoSortedString ==
    /\ pc = "start"
    /\ \E order \in Orders(DOMAIN attrs) :
         ret' = [op |-> "SortedString", order |-> order, keys |-> sortSlice(order),
                 out |-> SortedString(attrs), n |-> Len(SortedString(attrs))]
    /\ pc' = "done"
    /\ UNCHANGED <<call, style, attrs, builder>>

\* WriteSortedTo on a writer that holds text already
DoWriteSortedTo ==
    /\ pc = "start"
    /\ \E order \in Orders(DOMAIN attrs) :
         ret' = With(WriteSortedTo(attrs, NewBuilder), LAMBDA r :
                    [op |-> "WriteSortedTo", order |-> order, keys |-> sortSlice(order),
                     out |-> r.w.buf, n |-> r.n])
    /\ pc' = "done"
    /\ UNCHANGED <<call, style, attrs, builder>>

NextSorted ==
    \/ DoSortedString
    \/ DoWriteSortedTo

SpecSorted == InitSorted /\ [][NextSorted]_vars

\* the keys of the store as C22 orders them: the special keys that the
\* store has, in the order of the list, then the other keys as strings
ClaimedKeys ==
    With(DOMAIN attrs, LAMBDA D :
        WordsAt(SpecialKeys, {i \in 1..Len(SpecialKeys) : SpecialKeys[i] \in D})
        \o With(D \ {SpecialKeys[i] : i \in 1..Len(SpecialKeys)}, LAMBDA R :
                [i \in 1..Cardinality(R) |->
                    CHOOSE k \in R : Cardinality({o \in R : StrLess(o, k)}) = i - 1]))

\* the pair of the key k as C22 writes it
ClaimedPair(k) ==
    IF attrs[k] = <<>> THEN k
    ELSE k \o <<"=", "\"">> \o EscapeString(attrs[k]) \o <<"\"">>

\* C22: SortedString and WriteSortedTo write the special keys first, in
\* their fixed order, then the other keys in the order of their names, a
\* key without value as its name and any other as name="escaped value",
\* one space between two pairs and none around them, whatever the order
\* in which the map is visited.
C22_SortedEncoding ==
    ret.op \in {"SortedString", "WriteSortedTo"}
    => /\ ret.keys = ClaimedKeys
       /\ ret.keys = sortedKeys(attrs)
       /\ ret.out = Join([i \in 1..Len(ClaimedKeys) |-> ClaimedPair(ClaimedKeys[i])], <<" ">>)
       /\ ret.n = Len(ret.out)

\* a store with height, width and title, visited in the order title, height,
\* width, is written width first, a pair without value among them
C22_Witness ==
    /\ ret.op = "SortedString"
    /\ ret.order = <<<<"t", "i", "t", "l", "e">>, <<"h", "e", "i", "g", "h", "t">>, <<"w", "i", "d", "t", "h">>>>
    /\ ret.keys = <<<<"w", "i", "d", "t", "h">>, <<"h", "e", "i", "g", "h", "t">>, <<"t", "i", "t", "l", "e">>>>
    /\ attrs[<<"t", "i", "t", "l", "e">>] = <<>> /\ attrs[<<"w", "i", "d", "t", "h">>] # <<>>

(***************************************************************************)
(* Specification SpecWords: the functions of class.go on word lists        *)
(***************************************************************************)

\* the original values are made of at most this many pieces
MaxWordPieces == 3

\* the pieces of the original values: two words, a space and a newline
WordPieces == { <<"x">>, <<"y">>, <<" ">>, <<"\n">> }

\* the new values
NewWordValues ==
    { <<>>, <<"x">>, <<"y">>, <<"y", " ", "x">>, <<"x", " ", " ", "y">>, <<"z", " ", "z">>, <<" ", "z", "\n", "x", " ">>, <<"x", " ", "z", "\n", "x">>, <<"x", " ", "x">> }

InitWords ==
    /\ pc = "start"
    /\ call \in [original : Pieces(WordPieces, MaxWordPieces), additions : NewWordValues]
    /\ ret = NoRet
    /\ style = EmptyMap
    /\ attrs = EmptyMap
    /\ builder = NoBuilder

\* MergeWords(original, additions), and MergeWords of its result with the
\* same additions
DoMergeWords ==
    /\ pc = "start"
    /\ ret' = With(MergeWords(call.original, call.additions), LAMBDA out :
                 [op |-> "MergeWords", out |-> out, again |-> MergeWords(out, call.additions)])
    /\ pc' = "done"
    /\ UNCHANGED <<call, style, attrs, builder>>

\* RemoveWords(original, additions)
DoRemoveWords ==
    /\ pc = "start"
    /\ ret' = With(RemoveWords(call.original, call.additions), LAMBDA out :
                 [op |-> "RemoveWords", out |-> out, again |-> RemoveWords(out, call.additions)])
    /\ pc' = "done"
    /\ UNCHANGED <<call, style, attrs, builder>>

\* HasWord
HasWord(haystack, needle) ==
    \E i \in 1..Len(Fields(haystack)) : Fields(haystack)[i] = needle

\* HasWord(original, w) for the first of the new words
DoHasWord ==
    /\ pc = "start"
    /\ Fields(call.additions) # <<>>
    /\ ret' = [op |-> "HasWord", out |-> HasWord(call.original, Fields(call.additions)[1]),
               again |-> HasWord(call.original, Fields(call.additions)[1])]
    /\ pc' = "done"
    /\ UNCHANGED <<call, style, attrs, builder>>

NextWords ==
    \/ DoMergeWords
    \/ DoRemoveWords
    \/ DoHasWord

SpecWords == InitWords /\ [][NextWords]_vars

\* the tokens of s read from the left: the word w is being read
RECURSIVE tokensFrom(_, _, _)
tokensFrom(s, i, w) ==
    IF i > Len(s) THEN (IF w = <<>> THEN <<>> ELSE <<w>>)
    ELSE IF s[i] \in Space
    THEN (IF w = <<>> THEN <<>> ELSE <<w>>) \o tokensFrom(s, i + 1, <<>>)
    ELSE tokensFrom(s, i + 1, Append(w, s[i]))

\* the tokens of s, any run of whitespace being one separator
Tokens(s) == tokensFrom(s, 1, <<>>)

NoTokenTwice(s) ==
    \A i, j \in 1..Len(Tokens(s)) : Tokens(s)[i] = Tokens(s)[j] => i = j

\* C24: the string MergeWords returns has no token twice, whatever its two
\* arguments; after AddValues and AddClass the value of the attribute has no
\* token twice, whatever the store and the values.
C24_NoDuplicates ==
    ret.op = "MergeWords" => NoTokenTwice(ret.out)

\* what MergeWords does ensure: no token twice when original has none twice
NoDuplicatesFromPlainOriginal ==
    (ret.op = "MergeWords" /\ NoTokenTwice(call.original)) => NoTokenTwice(ret.out)

\* the second half of C24 in SpecStore: after AddValuesChanged the
\* attribute has no token twice
NoDuplicatesAfterAddValues ==
    (ret.op = "AddValuesChanged" /\ ~ret.panic /\ Has(attrs, call.name))
    => NoTokenTwice(attrs[call.name])

(***************************************************************************)
(* Properties of the attribute strings                                     *)
(***************************************************************************)

\* the pairs that templateMatcher finds in the text of the call
FoundPairs == FindAllString(call.v, 0)

\* the name of the pair p: what is before its first ="
PairName(p) == Slice(p, 0, Index(p, <<"=", "\"">>))

\* the value of the pair p: what is between its first =" and its last quote
PairValue(p) == Slice(p, Index(p, <<"=", "\"">>) + 2, Len(p) - 1)

\* C25: OverrideString on an empty store returns normally with Get(name) =
\* value for every name="value" pair of the text, the value being any text
\* without a double quote; MergeString does the same for the names other
\* than class and style; what has not the shape of a pair is skipped.
C25_TemplateParsing ==
    /\ (ret.op = "OverrideString" /\ ret.before = EmptyMap)
       => /\ ~ret.panic
          /\ \A i \in 1..Len(FoundPairs) :
                Attributes_Get(attrs, PairName(FoundPairs[i])) = PairValue(FoundPairs[i])
          /\ FoundPairs = <<>> => attrs = EmptyMap
    /\ ret.op = "MergeString"
       => /\ ~ret.panic
          /\ \A i \in 1..Len(FoundPairs) :
                PairName(FoundPairs[i]) \notin {<<"c", "l", "a", "s", "s">>, <<"s", "t", "y", "l", "e">>}
                => Attributes_Get(attrs, PairName(FoundPairs[i])) = PairValue(FoundPairs[i])
          /\ FoundPairs = <<>> => attrs = ret.before

\* the pair p has a value, with no = in it, and is not a style, and Set
\* takes its value for its name
PlainPair(p) ==
    /\ PairValue(p) # <<>>
    /\ ~Contains(PairValue(p), <<"=">>)
    /\ PairName(p) # <<"s", "t", "y", "l", "e">>
    /\ ~Attributes_SetChanged(EmptyMap, PairName(p), PairValue(p), TRUE, "amd64").err

\* what the parsing does ensure: the same, for the texts whose pairs are plain
ParsingOfPlainPairs ==
    (ret.op \in {"OverrideString", "MergeString"}
        /\ \A i \in 1..Len(FoundPairs) : PlainPair(FoundPairs[i]))
    => C25_TemplateParsing

\* a text with a fragment and a pair has been parsed into an empty store
ParsedFragmentAndPair ==
    /\ ret.op = "OverrideString" /\ ret.before = EmptyMap
    /\ call.v = <<"q", " ", "t", "i", "t", "l", "e", "=", "\"", "a", " ", "b", "\"">>
    /\ attrs = (<<"t", "i", "t", "l", "e">> :> <<"a", " ", "b">>)

(***************************************************************************)
(* Specification SpecLabel: RenderLabel and WriteLabel (tag.go)            *)
(***************************************************************************)

\* WriteLabel; order is the order in which WriteTo visits labelAttributes
WriteLabel(w, labelAttributes, order, label, ctrlHtml, mode) ==
    With(EscapeString(label), LAMBDA esc :
        IF mode = "LabelBefore"
        THEN With(WriteTagNoSpace(w, <<"l", "a", "b", "e", "l">>, labelAttributes, order, NewReader(esc)),
                  LAMBDA r1 :
                IF r1.err THEN [w |-> r1.w, n |-> r1.n, err |-> TRUE, panic |-> FALSE] ELSE
             With(writeString(r1.w, <<" ">>, r1.n), LAMBDA r2 :
                IF r2.err THEN [w |-> r2.w, n |-> r2.n, err |-> TRUE, panic |-> FALSE] ELSE
             With(WriterTo_WriteTo(ctrlHtml, r2.w), LAMBDA r3 :
                [w |-> r3.w, n |-> r2.n + r3.n, err |-> r3.err, panic |-> r3.panic])))
        ELSE IF mode = "LabelAfter"
        THEN With(WriterTo_WriteTo(ctrlHtml, w), LAMBDA r1 :
                IF r1.panic \/ r1.err THEN r1 ELSE
             With(writeString(r1.w, <<" ">>, r1.n), LAMBDA r2 :
                IF r2.err THEN [w |-> r2.w, n |-> r2.n, err |-> TRUE, panic |-> FALSE] ELSE
             With(WriteTagNoSpace(r2.w, <<"l", "a", "b", "e", "l">>, labelAttributes, order, NewReader(esc)),
                  LAMBDA r3 :
                [w |-> r3.w, n |-> r2.n + r3.n, err |-> r3.err, panic |-> FALSE])))
        ELSE IF mode = "LabelWrapBefore"
        THEN With(WriteTag(w, <<"l", "a", "b", "e", "l">>, labelAttributes, order,
                           makeWritersTo(<<NewReader(esc \o <<" ">>), ctrlHtml>>)), LAMBDA r :
                [w |-> r.w, n |-> r.n, err |-> r.err, panic |-> r.panic])
        ELSE IF mode = "LabelWrapAfter"
        THEN With(WriteTag(w, <<"l", "a", "b", "e", "l">>, labelAttributes, order,
                           makeWritersTo(<<ctrlHtml, NewReader(<<" ">> \o esc)>>)), LAMBDA r :
                [w |-> r.w, n |-> r.n, err |-> r.err, panic |-> r.panic])
        ELSE [w |-> w, n |-> 0, err |-> FALSE, panic |-> TRUE])

\* RenderLabel: a nil io.WriterTo for an empty ctrlHtml; panics on an error
RenderLabel(labelAttributes, order, label, ctrlHtml, mode) ==
    With(WriteLabel(NewBuilder, labelAttributes, order, label, readerOrNil(ctrlHtml), mode),
         LAMBDA r : [s |-> r.w.buf, n |-> r.n, panic |-> r.panic \/ r.err])

\* the label texts: none, T, a<b, T x
LabelTexts == { <<>>, <<"T">>, <<"a", "<", "b">>, <<"T", " ", "x">> }

\* the markup of the control: none, <input>, two lines
CtrlHtmls == { <<>>, <<"<", "i", "n", "p", "u", "t", ">">>, <<"c", "\n", "d">> }

\* the attributes of the label: none, or a class
LabelAttrs == { EmptyMap, (<<"c", "l", "a", "s", "s">> :> <<"x">>) }

\* LabelDrawingMode
LabelModes == {"LabelDefault", "LabelBefore", "LabelAfter", "LabelWrapBefore", "LabelWrapAfter"}

InitLabel ==
    /\ pc = "start"
    /\ call \in [label : LabelTexts, ctrlHtml : CtrlHtmls, attr : LabelAttrs,
                 mode : LabelModes]
    /\ ret = NoRet
    /\ style = EmptyMap
    /\ attrs = EmptyMap
    /\ builder = NoBuilder

\* what WriteLabel writes of the call on a sink that never fails
FullLabel ==
    WriteLabel(NewBuilder, call.attr, CHOOSE o \in Orders(DOMAIN call.attr) : TRUE,
               call.label, NewReader(call.ctrlHtml), call.mode).w.buf

\* the sinks WriteLabel is tried with: one that never fails, and one for
\* every count of bytes up to the length of the whole label
LabelSinks == {NewBuilder} \cup {newErrBuf(k) : k \in 0..Len(FullLabel)}

DoRenderLabel ==
    /\ pc = "start"
    /\ \E order \in Orders(DOMAIN call.attr) :
         ret' = With(RenderLabel(call.attr, order, call.label, call.ctrlHtml, call.mode),
                     LAMBDA r : [op |-> "RenderLabel", nilCtrl |-> call.ctrlHtml = <<>>,
                                 limited |-> FALSE, cap |-> 0, out |-> r.s, n |-> r.n,
                                 err |-> FALSE, panic |-> r.panic])
    /\ pc' = "done"
    /\ UNCHANGED <<call, style, attrs, builder>>

\* WriteLabel with the control in a strings.Reader, or with nil for it
DoWriteLabel ==
    /\ pc = "start"
    /\ \E order \in Orders(DOMAIN call.attr), w \in LabelSinks,
          ctrl \in {NewReader(call.ctrlHtml), readerOrNil(call.ctrlHtml)} :
         ret' = With(WriteLabel(w, call.attr, order, call.label, ctrl, call.mode),
                     LAMBDA r : [op |-> "WriteLabel", nilCtrl |-> ctrl.kind = "nil",
                                 limited |-> w.limited, cap |-> w.cap, out |-> r.w.buf,
                                 n |-> r.n, err |-> r.err, panic |-> r.panic])
    /\ pc' = "done"
    /\ UNCHANGED <<call, style, attrs, builder>>

NextLabel ==
    \/ DoRenderLabel
    \/ DoWriteLabel

SpecLabel == InitLabel /\ [][NextLabel]_vars

\* the label element of C26 around the text t
LabelElement(t) == <<"<", "l", "a", "b", "e", "l", ">">> \o t \o <<"<", "/", "l", "a", "b", "e", "l", ">">>

\* what C26 has RenderLabel return
ClaimedLabel ==
    With(EscapeString(call.label), LAMBDA L :
        IF call.mode = "LabelBefore" THEN LabelElement(L) \o <<" ">> \o call.ctrlHtml
        ELSE IF call.mode = "LabelAfter" THEN call.ctrlHtml \o <<" ">> \o LabelElement(L)
        ELSE IF call.mode = "LabelWrapBefore"
        THEN LabelElement(<<"\n">> \o L \o <<" ">> \o call.ctrlHtml \o <<"\n">>)
        ELSE LabelElement(<<"\n">> \o call.ctrlHtml \o <<" ">> \o L \o <<"\n">>))

\* the call is one C26 speaks of: one of the four modes, a label without
\* attributes
IsLabelCall == call.mode # "LabelDefault" /\ call.attr = EmptyMap

\* C26: in each of the four modes RenderLabel returns the label element
\* with the escaped text before or after the markup of the control, or
\* around both, for every text and every markup, the empty markup too;
\* WriteLabel returns the number of bytes it has written.
C26_LabelRendering ==
    /\ (ret.op = "RenderLabel" /\ IsLabelCall) => (~ret.panic /\ ret.out = ClaimedLabel)
    /\ (ret.op = "WriteLabel" /\ IsLabelCall /\ ~ret.panic) => ret.n = Len(ret.out)

\* what RenderLabel does ensure: the same, for a control with markup
LabelOfControl ==
    (ret.op \in {"RenderLabel", "WriteLabel"} /\ ~ret.nilCtrl) => C26_LabelRendering

\* WriteLabel returns the bytes written whatever the attributes of the
\* label, with an error when the sink takes less than the whole label
LabelByteCount ==
    (ret.op = "WriteLabel" /\ call.mode # "LabelDefault" /\ ~ret.panic)
    => /\ ret.n = Len(ret.out)
       /\ ret.err = (ret.limited /\ ret.cap < Len(FullLabel))
       /\ ret.out = IF ret.limited /\ ret.cap < Len(FullLabel)
                    THEN Slice(FullLabel, 0, ret.cap) ELSE FullLabel

\* a label has been wrapped around its control, its text escaped
WrappedLabel ==
    /\ ret.op = "RenderLabel" /\ call.mode = "LabelWrapAfter"
    /\ ret.out = <<"<", "l", "a", "b", "e", "l", ">", "\n", "<", "i", "n", "p", "u", "t", ">", " ", "a", "&", "l", "t", ";", "b", "\n", "<", "/", "l", "a", "b", "e", "l", ">">>

\* a label with an empty control has been rendered
EmptyControlLabel ==
    /\ ret.op = "RenderLabel" /\ IsLabelCall /\ call.ctrlHtml = <<>> /\ ret.panic

(***************************************************************************)
(* Indent keeps its input                                                  *)
(***************************************************************************)

\* o from its i-th character on is s from its j-th character on with pairs
\* of spaces inserted at the beginning of lines only; bol tells that s is at
\* the beginning of a line where nothing is inserted yet
RECURSIVE InsertedAtLineStarts(_, _, _, _, _)
InsertedAtLineStarts(o, s, i, j, bol) ==
    IF i > Len(o) THEN j > Len(s)
    ELSE \/ /\ j <= Len(s)
            /\ o[i] = s[j]
            /\ InsertedAtLineStarts(o, s, i + 1, j + 1, s[j] = "\n")
         \/ /\ bol
            /\ i + 1 <= Len(o)
            /\ o[i] = " " /\ o[i + 1] = " "
            /\ InsertedAtLineStarts(o, s, i + 2, j, FALSE)

\* C27: the output of Indent is its input with pairs of spaces inserted at
\* the beginning of lines and nowhere else, no character of the input being
\* dropped: the text before a '<textarea' that is never closed is kept, and
\* the text after a '</textarea>' on its line gets no spaces.
C27_IndentPreserves ==
    (pc = "done" /\ ret.op = "Indent")
    => InsertedAtLineStarts(ret.out, call.s, 1, 1, TRUE)

\* every '<textarea' of s has its '</textarea>', with the end of the line
\* or of the text right after it
RECURSIVE ClosedAtLineEnds(_)
ClosedAtLineEnds(s) ==
    With(Index(s, textareaOpen), LAMBDA o :
        IF o < 0 THEN TRUE
        ELSE With(Index(Slice(s, o, Len(s)), textareaClose), LAMBDA c :
                IF c < 0 THEN FALSE
                ELSE With(Slice(s, o + c + Len(textareaClose), Len(s)), LAMBDA rest :
                        /\ rest = <<>> \/ rest[1] = "\n"
                        /\ ClosedAtLineEnds(rest))))

\* what Indent does ensure: the same, for the texts whose textareas are
\* closed at the end of a line
IndentPreservesClosedLines ==
    (pc = "done" /\ ret.op = "Indent" /\ ClosedAtLineEnds(call.s))
    => InsertedAtLineStarts(ret.out, call.s, 1, 1, TRUE)

\* a text with a textarea and a line after it has been indented
IndentedAroundTextarea ==
    /\ pc = "done" /\ ret.op = "Indent"
    /\ call.s = <<"<", "t", "e", "x", "t", "a", "r", "e", "a", ">", "<", "/", "t", "e", "x", "t", "a", "r", "e", "a", ">", "\n", "d">>
    /\ ret.out = <<"<", "t", "e", "x", "t", "a", "r", "e", "a", ">", "<", "/", "t", "e", "x", "t", "a", "r", "e", "a", ">", "\n", " ", " ", "d">>

(***************************************************************************)
(* Specification SpecSentinel: the store under all its mutating calls      *)
(***************************************************************************)

\* Attributes.SetData: SetDataChanged that panics on an error
SetData(a, name, v) ==
    With(SetDataChanged(a, name, v), LAMBDA r :
        [a |-> r.a, changed |-> r.changed, err |-> FALSE, panic |-> r.err])

\* the values given to SetData: x, and what ValueString(false) returns
SetDataValues == { <<"x">>, FalseValue }

DoSetData ==
    /\ pc = "ready" /\ call.k < MaxAttrCalls
    /\ \E name \in DataNames, v \in SetDataValues :
         /\ call' = [k |-> call.k + 1, name |-> name, v |-> v]
         /\ ret' = AttrRet("SetData", SetData(attrs, name, v))
    /\ attrs' = ret'.after
    /\ pc' = IF ret'.panic THEN "panicked" ELSE "ready"
    /\ UNCHANGED <<style, builder>>

NextSentinel ==
    \/ DoAttributesSetChanged
    \/ DoSetData
    \/ DoSetStyleChanged
    \/ DoAddValuesChanged
    \/ DoMerge
    \/ DoOverride
    \/ DoMergeString
    \/ DoOverrideString

SpecSentinel == InitAttr /\ [][NextSentinel]_vars

\* C28: after any sequence of Set, SetChanged, SetData, SetStyle,
\* AddValues, AddClass, Merge, Override, MergeString and OverrideString
\* from the empty store on, no attribute has FalseValue as its value, and
\* the text of FalseValue is not in the encoding of the store.
C28_SentinelNeverStored ==
    /\ \A k \in DOMAIN attrs : attrs[k] # FalseValue
    /\ ~Contains(SortedString(attrs), FalseValue)

\* what the store does ensure: SetChanged never stores FalseValue itself
SetChangedNeverStoresSentinel ==
    ret.op = "SetChanged"
    => \A k \in DOMAIN attrs :
          attrs[k] = FalseValue => (k \in DOMAIN ret.before /\ ret.before[k] = FalseValue)

\* SetChanged has removed with FalseValue an attribute of a store that
\* another call has filled
SentinelRemoved ==
    /\ ret.op = "SetChanged" /\ call.v = FalseValue /\ ret.changed
    /\ ret.before # EmptyMap /\ attrs = EmptyMap

(***************************************************************************)
(* class and style are not stored empty                                    *)
(***************************************************************************)

\* the store a holds a class attribute without a token
EmptyClass(a) == Has(a, <<"c", "l", "a", "s", "s">>) /\ Tokens(a[<<"c", "l", "a", "s", "s">>]) = <<>>

\* the store a holds a style attribute without a property: an empty text
EmptyStyle(a) == Has(a, <<"s", "t", "y", "l", "e">>) /\ TrimSpace(a[<<"s", "t", "y", "l", "e">>]) = <<>>

\* C29: after any sequence of SetClass, AddClass, RemoveClass,
\* RemoveClassesWithPrefix, SetStyle, RemoveStyle and SetChanged from the
\* empty store on, the class attribute is absent or holds a token and the
\* style attribute is absent or holds a property, so that neither is
\* written as a bare name.
C29_NeverStoredEmpty ==
    /\ ~EmptyClass(attrs)
    /\ ~EmptyStyle(attrs)
    /\ \A order \in Orders(DOMAIN attrs) :
          String(attrs, order) \notin {<<"c", "l", "a", "s", "s">>, <<"s", "t", "y", "l", "e">>}

\* the call removes words of the class attribute
IsClassRemoval ==
    \/ ret.op \in {"RemoveClass", "RemoveClassesWithPrefix"}
    \/ IsClassCall /\ HasPrefix(call.v, <<"-", " ">>)

\* what the store does ensure: a class attribute is left without a token
\* by the removal of words only, a style attribute without a property by
\* RemoveStyle only; SetClassChanged("") removes the attribute
EmptyOnlyByRemoval ==
    /\ (EmptyClass(attrs) /\ ~EmptyClass(ret.before)) => IsClassRemoval
    /\ (EmptyStyle(attrs) /\ ~EmptyStyle(ret.before)) => ret.op = "RemoveStyle"
    /\ (IsClassCall /\ call.v = <<>>) => ~Has(attrs, <<"c", "l", "a", "s", "s">>)

\* RemoveStyle has removed the one property of the style attribute
LastStyleRemoved ==
    /\ ret.op = "RemoveStyle" /\ ret.changed
    /\ ~EmptyStyle(ret.before) /\ EmptyStyle(attrs)

\* the class x has been set and then replaced by no class
ClassSetAndCleared ==
    /\ IsClassCall /\ call.v = <<>> /\ ret.changed
    /\ ret.before = (<<"c", "l", "a", "s", "s">> :> <<"x">>) /\ attrs = EmptyMap

(***************************************************************************)
(* The arithmetic of Style returns                                         *)
(***************************************************************************)

\* C30: Style.SetChanged returns normally for every property, every value
\* the property holds, one with a hyphen that no digit follows too, and
\* every value with an operator prefix: with an error and the Style as it
\* was, or with the value updated; it never panics.
C30_ArithmeticReturns ==
    ret.op = "SetChanged"
    => /\ ~ret.panic
       /\ ret.err => style = ret.before

\* the text cur has a hyphen that neither a digit nor a fraction follows
HasLoneHyphen(cur) ==
    \E i \in 1..Len(cur) :
        /\ cur[i] = "-"
        /\ ~(i < Len(cur) /\ cur[i + 1] \in Digit)
        /\ ~(i + 1 < Len(cur) /\ cur[i + 1] = "." /\ cur[i + 2] \in Digit)

\* what SetChanged does ensure: it returns unless the operand is a number
\* and the value held has such a hyphen, and an error leaves the Style
ArithmeticReturnsWithoutLoneHyphen ==
    ret.op = "SetChanged"
    => /\ ret.panic <=> /\ IsArithmetic(call.value)
                        /\ ~ParseFloat(Slice(call.value, 2, Len(call.value))).err
                        /\ HasLoneHyphen(Get(ret.before, call.property))
       /\ (ret.err /\ ~ret.panic) => style = ret.before

\* the arithmetic on the value sans-serif has panicked
PanicOnSansSerif ==
    /\ ret.op = "SetChanged" /\ ret.panic
    /\ call.value = <<"*", " ", "2">>
    /\ Get(ret.before, call.property) = <<"s", "a", "n", "s", "-", "s", "e", "r", "i", "f">>

\* the arithmetic has been done on a value with a negative number in it
ArithmeticOnNegative ==
    /\ ret.op = "SetChanged" /\ ~ret.panic /\ ~ret.err
    /\ call.value = <<"*", " ", "2">>
    /\ Get(ret.before, call.property) = <<"-", "1", ".", "5">>
    /\ Get(style, call.property) = <<"-", "3">>

=============================================================================
